---- MODULE Spec2Model ----
(***************************************************************************)
(* Position lifecycle of the trading stack.                                *)
(*                                                                         *)
(* Spec     : the three backtest loops, one bar per step                   *)
(*            - "improved": ImprovedAnomalyTradingStrategy.backtest_strategy*)
(*            - "current" : StrategyComparator.backtest_strategy driving   *)
(*                          CurrentAnomalyStrategy                         *)
(*            - "meanrev" : StrategyComparator.backtest_strategy driving   *)
(*                          MeanReversionStrategy                          *)
(* SpecLive : the alert driven TradeExecutor of app/trading.py run by the  *)
(*            monitor loop of app/realtime.py against a broker and a       *)
(*            database that may fail.                                      *)
(*                                                                         *)
(* Python floats are modelled as exact rationals [n, d] (d > 0, lowest     *)
(* terms); percentages are integers out of 100, severities are tenths.     *)
(***************************************************************************)
EXTENDS Integers, Sequences, FiniteSets, TLC

VARIABLES
    engine,             \* which backtest loop this behaviour runs
    last_signal,        \* the signal of the bar processed last, <<>> or <<signal>>
    day,                \* index of the bar processed last (loop variable i)
    today,              \* calendar date of the bar processed last, in days
    window,             \* improved: position of the bar w.r.t. the backtest date range
    execution_price,    \* price of the bar processed last
    positions,          \* improved: list of Position objects
    cmp_positions,      \* comparator: dict `positions` (symbol -> info), <<>> or <<info>>
    strategy_positions, \* MeanReversionStrategy.positions, <<>> or <<info>>
    shares_owned,       \* comparator: shares_owned
    trades,             \* trade log of the backtest
    total_invested,
    total_sold_value,
    stock_performance,  \* wins / losses / total_profit of the symbol
    result,             \* <<the dict returned by backtest_strategy>>, <<>> while running
    bar_indicators,     \* meanrev: the indicators dict of the bar processed last
    tick_start,         \* history: position collection at the start of the last bar
    tick_from,          \* history: Len(trades) at the start of the last bar
    alerts,             \* live: rows of table alerts, in id order
    broker,             \* live: the broker's open position per symbol (qty 0: none)
    orders,             \* live: market orders the broker accepted, in order
    now,                \* live: datetime.utcnow(), in minutes
    cycles,             \* live: iterations of run_loop completed
    phase,              \* live: where the current iteration of run_loop stands
    todo,               \* live: alert ids the loop in progress has yet to visit
    last,               \* history: outcome of the last execute_buy/sell_order call
    failed_exits,       \* history: ids of alerts whose sell order has ever failed
    running,            \* live: RealtimeMonitor.running
    stop_at,            \* history: <<the phase run_loop was in when stop() was called>>
    candles,            \* parity: rows of table candles of the symbol, in ts order
    live_exit,          \* parity: <<reason and time of the live exit>>, <<>> before it
    rsi_values,         \* rsi: rows of table rsi_values of the symbol, a set of [ts, rsi_14]
    rsi_call,           \* rsi: the last call of compute_rsi_wilder: what it was given and returned
    fn_call,            \* history: the last call of a function applied on its own, with its result
    daily_data,         \* the row of daily data get_execution_price is given
    mr_keys,            \* the symbols that are keys of MeanReversionStrategy.positions
    enabled,            \* live: TradeExecutor.enabled
    client,             \* live: TradeExecutor.client is not None
    notifications       \* history: the alerts send_alert_notification was called with

bvars == <<engine, day, today, window, execution_price, positions, cmp_positions,
           strategy_positions, shares_owned, trades, total_invested,
           total_sold_value, stock_performance, result, bar_indicators,
           tick_start, tick_from, last_signal>>

lvars == <<alerts, broker, orders, now, cycles, phase, todo, last, failed_exits>>

pvars == <<candles, live_exit>>

ivars == <<rsi_values, rsi_call>>

cvars == <<fn_call, daily_data, mr_keys>>

mvars == <<running, stop_at>>

evars == <<enabled, client>>

nvars == <<notifications>>

\* what the actions of one part of the program leave alone
nonbacktest == <<lvars, pvars, ivars, cvars, mvars, evars, nvars>>
nonlive == <<bvars, pvars, ivars, cvars, evars, nvars>>
nonparity == <<bvars, ivars, cvars, mvars, evars, nvars>>
nonrsi == <<bvars, alerts, broker, orders, cycles, todo, last, failed_exits, live_exit,
           cvars, mvars, evars, nvars>>

vars == <<bvars, lvars, pvars, ivars, cvars, mvars, evars, nvars>>

-----------------------------------------------------------------------------
(* Bounds of the model *)

MaxTicks == 3           \* bars replayed per backtest
MaxAlerts == 2          \* rows of table alerts
MaxCycles == 3          \* iterations of run_loop

-----------------------------------------------------------------------------
(* Exact arithmetic standing for Python float arithmetic *)

Abs(x) == IF x < 0 THEN -x ELSE x

RECURSIVE Gcd(_, _)
Gcd(a, b) == IF b = 0 THEN a ELSE Gcd(b, a % b)

Rat(n, d) == LET g == Gcd(Abs(n), d) IN [n |-> n \div g, d |-> d \div g]

RInt(k) == [n |-> k, d |-> 1]

RAdd(a, b) == Rat(a.n * b.d + b.n * a.d, a.d * b.d)

RSub(a, b) == Rat(a.n * b.d - b.n * a.d, a.d * b.d)

RMul(a, b) == Rat(a.n * b.n, a.d * b.d)

RDivInt(a, k) == Rat(a.n, a.d * k)

RLt(a, b) == a.n * b.d < b.n * a.d

RLe(a, b) == a.n * b.d <= b.n * a.d

Pct(p) == Rat(p, 100)

RECURSIVE RSum(_)
RSum(s) == IF s = <<>> THEN RInt(0) ELSE RAdd(Head(s), RSum(Tail(s)))

-----------------------------------------------------------------------------
(* Inputs of a bar *)

Prices == {80, 100, 120}

\* anomaly_info of AnomalyDetector.detect_all_anomalies: severity in tenths
AnomalyInfos ==
    { [is_anomaly |-> FALSE, severity |-> 0, signal_type |-> "NONE"],
      [is_anomaly |-> TRUE,  severity |-> 5,  signal_type |-> "BUY"],
      [is_anomaly |-> TRUE,  severity |-> 15, signal_type |-> "BUY"],
      [is_anomaly |-> TRUE,  severity |-> 15, signal_type |-> "SELL"],
      [is_anomaly |-> TRUE,  severity |-> 35, signal_type |-> "SELL"],
      [is_anomaly |-> TRUE,  severity |-> 35, signal_type |-> "MIXED"] }

-----------------------------------------------------------------------------
(* improved_anomaly_strategy.py *)

BasePositionSize == 10      \* position_size: float = 10.0
MinSeverity == 10           \* min_severity: float = 1.0, in tenths
StrongSeverity == 30        \* severity >= 3.0, in tenths
StopLossPct == 5            \* stop_loss_pct: float = 0.05
TrailingStopPct == 5        \* trailing_stop_pct: float = 0.05
OverboughtSellPct == 25     \* shares * 0.25
DustShares == 10000         \* shares < 0.0001, as 1/DustShares

\* Position.__init__ followed by the three assignments of backtest_strategy
NewPosition(id, shares, price, date, size) ==
    [id |-> id,
     shares |-> shares,
     entry_price |-> price,
     entry_date |-> date,
     position_size |-> size,
     highest_price |-> price,
     stop_loss_price |-> RMul(RInt(price), Pct(100 - StopLossPct)),
     trailing_stop_pct |-> TrailingStopPct,
     trailing_stop_price |-> RMul(RInt(price), Pct(100 - TrailingStopPct))]

\* update_trailing_stop without the test for a new high
update_trailing_stop_NoGuard(pos, current_price) ==
    [pos EXCEPT !.highest_price = current_price,
                !.trailing_stop_price =
                    RMul(RInt(current_price), Pct(100 - pos.trailing_stop_pct))]

\* Position.update_trailing_stop
update_trailing_stop(pos, current_price) ==
    IF current_price > pos.highest_price
    THEN [pos EXCEPT !.highest_price = current_price,
                     !.trailing_stop_price =
                         RMul(RInt(current_price), Pct(100 - pos.trailing_stop_pct))]
    ELSE pos

\* Position.should_stop_loss
should_stop_loss(pos, current_price) ==
    RLe(RInt(current_price), pos.stop_loss_price)

\* Position.should_trailing_stop
should_trailing_stop(pos, current_price) ==
    RLe(RInt(current_price), pos.trailing_stop_price)

\* StopReason with the two tests in the other order
StopReason_TrailingFirst(pos, current_price) ==
    IF should_trailing_stop(pos, current_price) THEN "TRAILING_STOP"
    ELSE IF should_stop_loss(pos, current_price) THEN "STOP_LOSS"
    ELSE "NONE"

\* the if / elif of the stop loop: which stop closes pos on this bar
StopReason(pos, current_price) ==
    IF should_stop_loss(pos, current_price) THEN "STOP_LOSS"
    ELSE IF should_trailing_stop(pos, current_price) THEN "TRAILING_STOP"
    ELSE "NONE"

\* the dict appended to trades for a sale; pos is the identity of the Position sold
SellTrade(pos, reason, price, shares, date) ==
    [type |-> "SELL", reason |-> reason, date |-> date, price |-> price,
     shares |-> shares, proceeds |-> RMul(shares, RInt(price)),
     entry_price |-> pos.entry_price,
     profit |-> RSub(RMul(shares, RInt(price)), RMul(shares, RInt(pos.entry_price))),
     pos |-> pos.id]

BuyTrade(pos, price, date, info) ==
    [type |-> "BUY", reason |-> info.signal_type, date |-> date, price |-> price,
     shares |-> pos.shares, cost |-> RMul(pos.shares, RInt(price)),
     severity |-> info.severity, pos |-> pos.id]

\* get_position_size with > in place of >= in the three tests of win_rate
get_position_size_Strict(perf, base_size) ==
    LET total_trades == perf.wins + perf.losses IN
    IF total_trades = 0 THEN RInt(base_size)
    ELSE IF 10 * perf.wins > 6 * total_trades THEN RMul(RInt(base_size), Rat(12, 10))
    ELSE IF 10 * perf.wins > 5 * total_trades THEN RInt(base_size)
    ELSE IF 10 * perf.wins > 4 * total_trades THEN RMul(RInt(base_size), Rat(8, 10))
    ELSE RMul(RInt(base_size), Rat(6, 10))

\* get_position_size
get_position_size(perf, base_size) ==
    LET total_trades == perf.wins + perf.losses IN
    IF total_trades = 0 THEN RInt(base_size)
    ELSE IF 10 * perf.wins >= 6 * total_trades THEN RMul(RInt(base_size), Rat(12, 10))
    ELSE IF 10 * perf.wins >= 5 * total_trades THEN RInt(base_size)
    ELSE IF 10 * perf.wins >= 4 * total_trades THEN RMul(RInt(base_size), Rat(8, 10))
    ELSE RMul(RInt(base_size), Rat(6, 10))

\* update_performance
update_performance(perf, profit) ==
    [wins |-> IF RLt(RInt(0), profit) THEN perf.wins + 1 ELSE perf.wins,
     losses |-> IF RLt(RInt(0), profit) THEN perf.losses ELSE perf.losses + 1,
     total_profit |-> RAdd(perf.total_profit, profit)]

RECURSIVE UpdatePerformanceAll(_, _)
UpdatePerformanceAll(perf, sells) ==
    IF sells = <<>> THEN perf
    ELSE UpdatePerformanceAll(update_performance(perf, Head(sells).profit), Tail(sells))

\* CheckStops without "for pos in positions_to_remove: positions.remove(pos)"
CheckStops_KeepClosed(ps, price, date) ==
    LET updated == [i \in 1..Len(ps) |-> update_trailing_stop(ps[i], price)]
        closed == SelectSeq(updated, LAMBDA p : StopReason(p, price) # "NONE")
    IN [kept |-> updated,
        sells |-> [i \in 1..Len(closed) |->
                     SellTrade(closed[i], StopReason(closed[i], price), price,
                               closed[i].shares, date)]]

\* the stop loop over positions and the removal of the closed ones
\* returns the surviving positions and the SELL trades in list order
CheckStops(ps, price, date) ==
    LET updated == [i \in 1..Len(ps) |-> update_trailing_stop(ps[i], price)]
        closed == SelectSeq(updated, LAMBDA p : StopReason(p, price) # "NONE")
    IN [kept |-> SelectSeq(updated, LAMBDA p : StopReason(p, price) = "NONE"),
        sells |-> [i \in 1..Len(closed) |->
                     SellTrade(closed[i], StopReason(closed[i], price), price,
                               closed[i].shares, date)]]

\* min(positions, key=lambda p: p.shares): index of the first position of least shares
MinSharesIndex(ps) ==
    CHOOSE i \in 1..Len(ps) :
        /\ \A j \in 1..Len(ps) : RLe(ps[i].shares, ps[j].shares)
        /\ \A j \in 1..(i - 1) : RLt(ps[i].shares, ps[j].shares)

\* the BUY branch: the positions after the entry and the BUY trade
HandleBuy(ps, perf, price, date, info) ==
    IF info.is_anomaly /\ info.severity >= MinSeverity
       /\ info.signal_type \in {"BUY", "MIXED"}
    THEN LET size == get_position_size(perf, BasePositionSize)
             pos == NewPosition(date, RDivInt(size, price), price, date, size)
         IN [ps |-> Append(ps, pos), buys |-> <<BuyTrade(pos, price, date, info)>>]
    ELSE [ps |-> ps, buys |-> <<>>]

\* HandleOverbought that sells the whole position and keeps its record
HandleOverbought_SellAllKeep(ps, price, date, info) ==
    IF info.is_anomaly /\ info.severity >= MinSeverity
       /\ info.signal_type \in {"SELL", "MIXED"} /\ Len(ps) > 0
       /\ info.severity >= StrongSeverity
    THEN LET k == MinSharesIndex(ps)
         IN [ps |-> [ps EXCEPT ![k].shares = RInt(0)],
             sells |-> <<SellTrade(ps[k], "OVERBOUGHT", price, ps[k].shares, date)>>]
    ELSE [ps |-> ps, sells |-> <<>>]

\* the SELL branch: 25% of the smallest position on a very strong signal
HandleOverbought(ps, price, date, info) ==
    IF info.is_anomaly /\ info.severity >= MinSeverity
       /\ info.signal_type \in {"SELL", "MIXED"} /\ Len(ps) > 0
       /\ info.severity >= StrongSeverity
    THEN LET k == MinSharesIndex(ps)
             shares_to_sell == RMul(ps[k].shares, Pct(OverboughtSellPct))
             left == RSub(ps[k].shares, shares_to_sell)
             sold == [ps EXCEPT ![k].shares = left]
         IN IF RLt(RInt(0), shares_to_sell)
            THEN [ps |-> IF RLt(left, Rat(1, DustShares))
                         THEN SelectSeq(sold, LAMBDA p : p.id # ps[k].id)
                         ELSE sold,
                  sells |-> <<SellTrade(ps[k], "OVERBOUGHT", price, shares_to_sell, date)>>]
            ELSE [ps |-> ps, sells |-> <<>>]
    ELSE [ps |-> ps, sells |-> <<>>]

Proceeds(sells) == RSum([i \in 1..Len(sells) |-> sells[i].proceeds])

\* a bar before the backtest date range: only the stops are checked
ImprovedSkipTick ==
    /\ engine = "improved" /\ result = <<>> /\ day < MaxTicks
    /\ UNCHANGED nonbacktest
    /\ window = "before"
    /\ \E price \in Prices, w \in {"before", "in"} :
        LET st == CheckStops(positions, price, day + 1) IN
        /\ window' = w
        /\ day' = day + 1
        /\ today' = today + 1
        /\ execution_price' = price
        /\ positions' = st.kept
        /\ trades' = trades \o st.sells
        /\ total_sold_value' = RAdd(total_sold_value, Proceeds(st.sells))
        /\ stock_performance' = UpdatePerformanceAll(stock_performance, st.sells)
        /\ tick_start' = positions
        /\ tick_from' = Len(trades)
    /\ UNCHANGED <<engine, last_signal, cmp_positions, strategy_positions, shares_owned,
                   total_invested, result, bar_indicators>>

\* one iteration of the bar loop inside the date range
ImprovedTick ==
    /\ engine = "improved" /\ result = <<>> /\ day < MaxTicks
    /\ UNCHANGED nonbacktest
    /\ window \in {"before", "in"}
    /\ \E price \in Prices, info \in AnomalyInfos :
        LET st == CheckStops(positions, price, day + 1)
            perf1 == UpdatePerformanceAll(stock_performance, st.sells)
            buy == HandleBuy(st.kept, perf1, price, day + 1, info)
            ob == HandleOverbought(buy.ps, price, day + 1, info)
        IN
        /\ window' = "in"
        /\ day' = day + 1
        /\ today' = today + 1
        /\ execution_price' = price
        /\ positions' = ob.ps
        /\ trades' = trades \o st.sells \o buy.buys \o ob.sells
        /\ total_invested' = RAdd(total_invested,
                                  RSum([i \in 1..Len(buy.buys) |-> buy.buys[i].cost]))
        /\ total_sold_value' = RAdd(total_sold_value,
                                    RAdd(Proceeds(st.sells), Proceeds(ob.sells)))
        /\ stock_performance' = UpdatePerformanceAll(perf1, ob.sells)
        /\ tick_start' = positions
        /\ tick_from' = Len(trades)
        /\ last_signal' = <<info>>
    /\ UNCHANGED <<engine, cmp_positions, strategy_positions, shares_owned, result,
                   bar_indicators>>

\* the code after the loop: remaining positions valued at the final price
ImprovedFinish ==
    /\ engine = "improved" /\ result = <<>> /\ day >= 1
    /\ UNCHANGED nonbacktest
    /\ LET final_execution_price == execution_price
           closing == [i \in 1..Len(positions) |->
                         SellTrade(positions[i], "END", final_execution_price,
                                   positions[i].shares, day)]
           sold == RAdd(total_sold_value, Proceeds(closing))
           current_value == Proceeds(closing)
       IN
       /\ total_sold_value' = sold
       /\ stock_performance' = UpdatePerformanceAll(stock_performance, closing)
       /\ result' = IF RLt(RInt(0), total_invested)
                    THEN <<[total_trades |-> Len(trades),
                          total_invested |-> total_invested,
                          total_sold_value |-> sold,
                          current_value |-> current_value,
                          total_value |-> RAdd(current_value, sold),
                          profit_loss |-> RSub(RAdd(current_value, sold), total_invested)]>>
                    ELSE <<[total_trades |-> 0,
                          total_invested |-> RInt(0),
                          total_sold_value |-> RInt(0),
                          current_value |-> RInt(0),
                          total_value |-> RInt(0),
                          profit_loss |-> RInt(0)]>>
    /\ UNCHANGED <<engine, last_signal, day, today, window, execution_price, positions,
                   cmp_positions, strategy_positions, shares_owned, trades,
                   total_invested, bar_indicators, tick_start, tick_from>>

-----------------------------------------------------------------------------
(* compare_strategies.py: StrategyComparator.backtest_strategy *)

ComparatorPositionSize == 1000  \* position_size: float = 1000.0

CmpMinSeverity == 1000      \* min_severity: float = 1.0, in thousandths
CmpStrongSeverity == 3000   \* signal.get('severity', 0) >= 3.0, in thousandths

\* indicator values of a bar, as check_signals computes them from the data
ZScores == {-2500, 0, 2500}         \* z_score, in thousandths
PriceChanges == {-4500, 0, 4500}    \* price_change_pct, in thousandths of a percent
GapPcts == {-3000, 0, 3000}         \* gap_pct, in thousandths of a percent
Rsis == {2997, 5000, 7500}          \* current_rsi, in hundredths

Tag(cond, name) == IF cond THEN <<name>> ELSE <<>>

\* the list anomalies, in the order of the eight tests
anomalies_of(z_score, price_change_pct, gap_pct, current_rsi) ==
    Tag(z_score < -2000, "oversold") \o
    Tag(price_change_pct < -3000, "extreme_drop") \o
    Tag(gap_pct < -2000, "gap_down") \o
    Tag(current_rsi < 3000, "rsi_oversold") \o
    Tag(z_score > 2000, "overbought") \o
    Tag(price_change_pct > 3000, "extreme_rise") \o
    Tag(gap_pct > 2000, "gap_up") \o
    Tag(current_rsi > 7000, "rsi_overbought")

\* the sum severity, in thousandths: abs(z_score), abs(price_change_pct) / 3,
\* abs(gap_pct) / 2, (30 - current_rsi) / 10 and (current_rsi - 70) / 10
severity_of(z_score, price_change_pct, gap_pct, current_rsi) ==
    (IF z_score < -2000 \/ z_score > 2000 THEN Abs(z_score) ELSE 0) +
    (IF price_change_pct < -3000 \/ price_change_pct > 3000
     THEN Abs(price_change_pct) \div 3 ELSE 0) +
    (IF gap_pct < -2000 \/ gap_pct > 2000 THEN Abs(gap_pct) \div 2 ELSE 0) +
    (IF current_rsi < 3000 THEN 3000 - current_rsi ELSE 0) +
    (IF current_rsi > 7000 THEN current_rsi - 7000 ELSE 0)

buy_signals == {"oversold", "extreme_drop", "gap_down", "rsi_oversold"}
sell_signals == {"overbought", "extreme_rise", "gap_up", "rsi_overbought"}

Elems(seq) == {seq[i] : i \in 1..Len(seq)}

\* "Determine signal type"
signal_type_of(anomalies) ==
    IF Elems(anomalies) \cap buy_signals # {}
    THEN IF Elems(anomalies) \cap sell_signals # {} THEN "MIXED" ELSE "BUY"
    ELSE IF Elems(anomalies) \cap sell_signals # {} THEN "SELL" ELSE "NONE"

\* f'{severity:.2f}': thousandths rounded to hundredths, ties to even
Format2f(severity) ==
    LET q == severity \div 10
        r == severity % 10
    IN IF r > 5 \/ (r = 5 /\ q % 2 = 1) THEN q + 1 ELSE q

\* CurrentAnomalyStrategy.check_signals from the indicator values on: the dict returned
check_signals(z_score, price_change_pct, gap_pct, current_rsi) ==
    LET anomalies == anomalies_of(z_score, price_change_pct, gap_pct, current_rsi)
        severity == severity_of(z_score, price_change_pct, gap_pct, current_rsi)
        signal_type == signal_type_of(anomalies)
    IN IF anomalies = <<>> \/ severity < CmpMinSeverity
       THEN [action |-> "HOLD",
             reason |-> <<"No anomaly or severity", Format2f(severity), "<", CmpMinSeverity>>]
       ELSE IF signal_type \in {"BUY", "MIXED"}
       THEN [action |-> "BUY", reason |-> anomalies, severity |-> severity,
             anomaly_types |-> anomalies]
       ELSE IF signal_type = "SELL"
       THEN [action |-> "SELL", reason |-> anomalies, severity |-> severity]
       ELSE [action |-> "HOLD", reason |-> <<"No clear signal">>]

\* the dict appended to trades by the comparator
CmpTrade(type, reason, price, shares, date) ==
    [type |-> type, reason |-> reason, date |-> date, price |-> price,
     shares |-> shares, value |-> RMul(shares, RInt(price))]

\* "Update trailing stop" of the standard position management
CmpRatchet(pos, current_price) ==
    IF current_price > pos.highest_price
    THEN [pos EXCEPT !.highest_price = current_price,
                     !.trailing_stop =
                         RMul(RInt(current_price), Pct(100 - TrailingStopPct))]
    ELSE pos

\* the two stop tests of the standard position management, in code order
CmpStopReason(pos, current_price) ==
    IF RLe(RInt(current_price), pos.stop_loss) THEN "STOP_LOSS"
    ELSE IF RLe(RInt(current_price), pos.trailing_stop) THEN "TRAILING_STOP"
    ELSE "NONE"

\* the position dict created by a standard buy
CmpNewPosition(shares, current_price) ==
    [shares |-> shares,
     entry_price |-> current_price,
     highest_price |-> current_price,
     stop_loss |-> RMul(RInt(current_price), Pct(100 - StopLossPct)),
     trailing_stop |-> RMul(RInt(current_price), Pct(100 - TrailingStopPct))]

\* one iteration of the bar loop for a strategy without check_exit_conditions
CurrentTick ==
    /\ engine = "current" /\ result = <<>> /\ day < MaxTicks
    /\ UNCHANGED nonbacktest
    /\ \E current_price \in Prices, z_score \in ZScores, price_change_pct \in PriceChanges,
          gap_pct \in GapPcts, current_rsi \in Rsis :
        LET signal == check_signals(z_score, price_change_pct, gap_pct, current_rsi)
            held == Len(cmp_positions) > 0
            pos == CmpRatchet(cmp_positions[1], current_price)
            stop == IF held THEN CmpStopReason(pos, current_price) ELSE "NONE"
            position_size == get_position_size(stock_performance, ComparatorPositionSize)
            shares_to_buy == RDivInt(position_size, current_price)
        IN
        /\ day' = day + 1
        /\ today' = today + 1
        /\ execution_price' = current_price
        /\ tick_start' = cmp_positions
        /\ tick_from' = Len(trades)
        /\ last_signal' =
               <<[anomalies |-> anomalies_of(z_score, price_change_pct, gap_pct, current_rsi),
                  severity |-> severity_of(z_score, price_change_pct, gap_pct, current_rsi),
                  signal |-> signal]>>
        /\ IF stop # "NONE"
           THEN /\ trades' = Append(trades, CmpTrade("SELL", stop, current_price,
                                                     shares_owned, day + 1))
                /\ total_sold_value' = RAdd(total_sold_value,
                                            RMul(shares_owned, RInt(current_price)))
                /\ shares_owned' = RInt(0)
                /\ cmp_positions' = <<>>
                /\ UNCHANGED total_invested
           ELSE IF signal.action = "BUY" /\ ~held
           THEN /\ cmp_positions' = <<CmpNewPosition(shares_to_buy, current_price)>>
                /\ trades' = Append(trades, CmpTrade("BUY", "Signal", current_price,
                                                     shares_to_buy, day + 1))
                /\ shares_owned' = RAdd(shares_owned, shares_to_buy)
                /\ total_invested' = RAdd(total_invested,
                                          RMul(shares_to_buy, RInt(current_price)))
                /\ UNCHANGED total_sold_value
           ELSE IF signal.action = "SELL" /\ held /\ signal.severity >= CmpStrongSeverity
           THEN /\ trades' = Append(trades, CmpTrade("SELL", "OVERBOUGHT", current_price,
                                                     shares_owned, day + 1))
                /\ total_sold_value' = RAdd(total_sold_value,
                                            RMul(shares_owned, RInt(current_price)))
                /\ shares_owned' = RInt(0)
                /\ cmp_positions' = <<>>
                /\ UNCHANGED total_invested
           ELSE /\ cmp_positions' = IF held THEN <<pos>> ELSE <<>>
                /\ UNCHANGED <<trades, total_sold_value, shares_owned, total_invested>>
    /\ UNCHANGED <<engine, window, positions, strategy_positions,
                   stock_performance, result, bar_indicators>>

-----------------------------------------------------------------------------
(* mean_reversion_strategy.py driven by StrategyComparator.backtest_strategy *)

Equity == 100000            \* equity: float = 100000.0
RiskPerTradeBp == 50        \* self.current_equity * 0.005, in 1/10000
KellyPct == 25              \* kelly_multiplier = 0.25
MaxNamePct == 10            \* self.current_equity * 0.10
MaxPositions == 6           \* self.max_positions = 6
TimeStopDays == 3           \* days_held >= 3
Tp2Pct == 2                 \* median_20 * 0.02

MA20s == {90, 130}          \* indicators['ma_20']
Medians == {100, 130}       \* indicators['median_20']
ATRs == {4, 8}              \* indicators['atr']
DateGaps == {1, 3}          \* calendar days between consecutive bars

RMin(a, b) == IF RLe(a, b) THEN a ELSE b

\* calculate_position_size
calculate_position_size(entry_price, stop_price) ==
    LET risk_per_trade == Rat(Equity * RiskPerTradeBp, 10000)
        risk_per_share == RSub(RInt(entry_price), stop_price)
        max_shares == Rat(Equity * MaxNamePct, 100 * entry_price)
    IN IF RLe(risk_per_share, RInt(0)) THEN RInt(0)
       ELSE RMin(RMul(Rat(risk_per_trade.n * risk_per_share.d,
                          risk_per_trade.d * risk_per_share.n), Pct(KellyPct)),
                 max_shares)

\* Initial Stop: Entry - 1.5 x ATR(14)
mr_initial_stop(entry_price, atr) == RSub(RInt(entry_price), Rat(3 * atr, 2))

\* Trailing Stop: Highest since entry - 2.5 x ATR(14)
mr_trailing_stop(highest_price, atr) == RSub(RInt(highest_price), Rat(5 * atr, 2))

\* Tp1Fires without the test of tp1_hit
Tp1Fires_NoStageTest(indicators, position) ==
    indicators.current_price >= indicators.ma_20

\* TP1: 20DMA, only while tp1_hit is False
Tp1Fires(indicators, position) ==
    indicators.current_price >= indicators.ma_20 /\ position.tp1_hit = FALSE

\* TP2: +1 sigma above the 20-day median, only once tp1_hit is True
Tp2Fires(indicators, position) ==
    /\ RLe(RMul(RInt(indicators.median_20), Pct(100 + Tp2Pct)),
           RInt(indicators.current_price))
    /\ position.tp1_hit

\* Time Stop: days_held >= 3
TimeStopFires(indicators, position) ==
    indicators.current_date - position.entry_date >= TimeStopDays

\* check_exit_conditions: the decision and the position dict as it leaves it
check_exit_conditions(indicators, position) ==
    LET current_price == indicators.current_price
        highest_price == position.highest_price
        ratcheted == IF current_price > highest_price
                     THEN [position EXCEPT !.highest_price = current_price]
                     ELSE position
    IN IF RLe(RInt(current_price),
              mr_initial_stop(position.entry_price, position.atr_at_entry))
       THEN [should_exit |-> TRUE, reason |-> "INITIAL_STOP", pct |-> 100,
             position |-> position]
       ELSE IF RLe(RInt(current_price),
                   mr_trailing_stop(highest_price, position.atr_at_entry))
       THEN [should_exit |-> TRUE, reason |-> "TRAILING_STOP", pct |-> 100,
             position |-> ratcheted]
       ELSE IF Tp1Fires(indicators, position)
       THEN [should_exit |-> TRUE, reason |-> "TP1_20DMA", pct |-> 50,
             position |-> [ratcheted EXCEPT !.tp1_hit = TRUE]]
       ELSE IF Tp2Fires(indicators, position)
       THEN [should_exit |-> TRUE, reason |-> "TP2_MEDIAN", pct |-> 100,
             position |-> ratcheted]
       ELSE IF TimeStopFires(indicators, position)
       THEN [should_exit |-> TRUE, reason |-> "TIME_STOP_3DAYS", pct |-> 100,
             position |-> ratcheted]
       ELSE [should_exit |-> FALSE, reason |-> "", pct |-> 0, position |-> ratcheted]

\* MeanReversionStrategy.check_signals; entry_ok stands for check_regime and
\* check_entry_conditions, which read market data only
mr_check_signals(indicators, entry_ok) ==
    LET initial_stop == mr_initial_stop(indicators.current_price, indicators.atr)
        shares == calculate_position_size(indicators.current_price, initial_stop)
    IN IF Len(strategy_positions) > 0 THEN [action |-> "HOLD"]
       ELSE IF Len(strategy_positions) >= MaxPositions THEN [action |-> "HOLD"]
       ELSE IF entry_ok /\ RLt(RInt(0), shares)
       THEN [action |-> "BUY", shares |-> shares,
             entry_price |-> indicators.current_price, atr |-> indicators.atr]
       ELSE [action |-> "HOLD"]

\* shares_to_sell that ignores exit_pct
shares_to_sell_All(owned, exit_pct) == owned

\* shares_to_sell = shares_owned * exit_pct
shares_to_sell(owned, exit_pct) == RMul(owned, Pct(exit_pct))

\* one iteration of the bar loop for MeanReversionStrategy
MeanRevTick ==
    /\ engine = "meanrev" /\ result = <<>> /\ day < MaxTicks
    /\ UNCHANGED nonbacktest
    /\ \E current_price \in Prices, ma \in MA20s, med \in Medians, atr \in ATRs,
          gap \in DateGaps, entry_ok \in BOOLEAN :
        LET ind == [current_price |-> current_price, ma_20 |-> ma,
                    median_20 |-> med, atr |-> atr, current_date |-> today + gap]
            signal == mr_check_signals(ind, entry_ok)
            held == Len(strategy_positions) > 0
            exit == check_exit_conditions(ind, strategy_positions[1])
            sold == shares_to_sell(shares_owned, exit.pct)
            left == RSub(shares_owned, sold)
        IN
        /\ day' = day + 1
        /\ today' = today + gap
        /\ bar_indicators' = <<ind>>
        /\ execution_price' = current_price
        /\ tick_start' = strategy_positions
        /\ tick_from' = Len(trades)
        /\ IF held /\ exit.should_exit
           THEN /\ trades' = Append(trades, CmpTrade("SELL", exit.reason, current_price,
                                                     sold, today + gap))
                /\ total_sold_value' = RAdd(total_sold_value,
                                            RMul(sold, RInt(current_price)))
                /\ shares_owned' = left
                /\ IF exit.pct >= 100
                   THEN /\ strategy_positions' = <<>>
                        /\ cmp_positions' = <<>>
                   ELSE /\ strategy_positions' =
                              <<[exit.position EXCEPT
                                   !.shares = left,
                                   !.highest_price =
                                       IF current_price > exit.position.highest_price
                                       THEN current_price
                                       ELSE exit.position.highest_price]>>
                        /\ cmp_positions' =
                              IF Len(cmp_positions) > 0
                              THEN <<[cmp_positions[1] EXCEPT !.shares = left]>>
                              ELSE cmp_positions
                /\ UNCHANGED total_invested
           ELSE IF held
           THEN /\ strategy_positions' = <<exit.position>>
                /\ UNCHANGED <<cmp_positions, trades, total_sold_value,
                               shares_owned, total_invested>>
           ELSE IF signal.action = "BUY" /\ Len(cmp_positions) = 0
           THEN /\ strategy_positions' =
                      <<[shares |-> signal.shares,
                         entry_price |-> signal.entry_price,
                         entry_date |-> today + gap,
                         atr_at_entry |-> signal.atr,
                         highest_price |-> current_price,
                         tp1_hit |-> FALSE]>>
                /\ cmp_positions' = <<[shares |-> signal.shares]>>
                /\ trades' = Append(trades, CmpTrade("BUY", "Signal", current_price,
                                                     signal.shares, today + gap))
                /\ shares_owned' = RAdd(shares_owned, signal.shares)
                /\ total_invested' = RAdd(total_invested,
                                          RMul(signal.shares, RInt(current_price)))
                /\ UNCHANGED total_sold_value
           ELSE UNCHANGED <<strategy_positions, cmp_positions, trades,
                            total_sold_value, shares_owned, total_invested>>
    /\ UNCHANGED <<engine, last_signal, window, positions, stock_performance, result>>

\* "Calculate final value" after the comparator's loop
ComparatorFinish ==
    /\ engine \in {"current", "meanrev"} /\ result = <<>> /\ day >= 1
    /\ UNCHANGED nonbacktest
    /\ LET final_price == execution_price
           current_value == RMul(shares_owned, RInt(final_price))
           total_value == RAdd(total_sold_value, current_value)
       IN result' = <<[total_trades |-> Len(trades),
                       total_invested |-> total_invested,
                       total_sold_value |-> total_sold_value,
                       current_value |-> current_value,
                       total_value |-> total_value,
                       profit_loss |-> RSub(total_value, total_invested)]>>
    /\ UNCHANGED <<engine, last_signal, day, today, window, execution_price, positions,
                   cmp_positions, strategy_positions, shares_owned, trades,
                   total_invested, total_sold_value, stock_performance,
                   bar_indicators, tick_start, tick_from>>

-----------------------------------------------------------------------------
(* Specification of the backtests *)

-----------------------------------------------------------------------------
(* app/trading.py TradeExecutor, driven by RealtimeMonitor.run_loop *)

NoRsiCall == [mode |-> "none", since |-> 0, closes |-> <<>>, rsi |-> <<>>]

TradePositionSize == 1000   \* POSITION_SIZE default "1000.0"
EntryDelayMinutes == 5      \* timedelta(minutes=5)
TakeProfitPct == 3          \* take_profit_pct: float = 3.0
MaxHoldingDays == 20        \* max_holding_days: int = 20
MinutesPerDay == 1440       \* timedelta.days

LiveSymbols == {"AAPL"}
Quotes == {0, 100, 104}     \* get_current_price: ask price, 0 for None
Advances == {5, 28800}      \* minutes of wall clock between two cycles
AccountInfos == {<<>>, <<[buying_power |-> 500]>>, <<[buying_power |-> 5000]>>}

NoBrokerPosition == [qty |-> 0, avg_entry_price |-> RInt(0)]

NoCall == [op |-> "none", alert |-> 0, ok |-> FALSE]

\* a query without the filter: the ids of all rows
AlertsWithStatus_Any(status) == [i \in 1..Len(alerts) |-> i]

\* ids of the rows with the given status: session.query(Alert).filter_by(status=...)
AlertsWithStatus(status) ==
    SelectSeq([i \in 1..Len(alerts) |-> i], LAMBDA i : alerts[i].status = status)

\* TradeExecutor.get_position: <<position>> or <<>> for None; every exception
\* of the client call, not only "position does not exist", returns None
get_position(symbol, lookup_ok) ==
    IF lookup_ok /\ broker[symbol].qty > 0 THEN <<broker[symbol]>> ELSE <<>>

\* the broker's position after a filled market buy of quantity at price
FilledBuy(pos, quantity, price) ==
    [qty |-> pos.qty + quantity,
     avg_entry_price |->
         RDivInt(RAdd(RMul(pos.avg_entry_price, RInt(pos.qty)), RInt(quantity * price)),
                 pos.qty + quantity)]

\* AlertService.create_alert for a cross-under event of the candle closing now
CreateAlert ==
    /\ engine \in {"live", "loop"} /\ phase = "idle" /\ Len(alerts) < MaxAlerts
    /\ UNCHANGED nonlive
    /\ \E symbol \in LiveSymbols :
        /\ \A i \in 1..Len(alerts) : ~(alerts[i].symbol = symbol /\ alerts[i].ts = now)
        /\ alerts' = Append(alerts, [symbol |-> symbol, ts |-> now, status |-> "pending"])
    /\ UNCHANGED <<broker, orders, now, cycles, phase, todo, last, failed_exits, running, stop_at>>

\* the loop test of TradingScheduler.run: while True
loop_continues_Forever(flag) == TRUE

\* the loop test of run_loop: while self.running
loop_continues(flag) == flag

\* a guard that lets the executor work whatever its configuration
trading_active_Always(is_enabled, has_client) == TRUE

\* if not self.enabled or not self.client: return 0
trading_active(is_enabled, has_client) == is_enabled /\ has_client

\* the next iteration of run_loop up to process_pending_alerts: the guard and
\* the query for the pending alerts
StartBuys ==
    /\ engine \in {"live", "loop", "held"} /\ phase = "idle" /\ cycles < MaxCycles
    /\ loop_continues(running)
    /\ UNCHANGED nonlive
    /\ phase' = "buys"
    /\ todo' = IF trading_active(enabled, client)
               THEN AlertsWithStatus("pending")
               ELSE <<>>
    /\ UNCHANGED <<alerts, broker, orders, now, cycles, last, failed_exits, running, stop_at>>

\* a loop of process_pending_alerts that buys for every pending alert it finds
entry_delay_passed_NoDelay(time_since_alert) == TRUE

\* if time_since_alert >= timedelta(minutes=5)
entry_delay_passed(time_since_alert) == time_since_alert >= EntryDelayMinutes

\* one iteration of the loop of process_pending_alerts: execute_buy_order
BuyStep ==
    /\ engine \in {"live", "loop", "held"} /\ phase = "buys" /\ todo # <<>>
    /\ UNCHANGED nonlive
    /\ \E lookup_ok \in BOOLEAN, account_info \in AccountInfos, current_price \in Quotes,
          submit_ok \in BOOLEAN, commit_ok \in BOOLEAN, session_usable \in BOOLEAN :
        LET id == Head(todo)
            alert == alerts[id]
            old_enough == entry_delay_passed(now - alert.ts)
            existing_position == get_position(alert.symbol, lookup_ok)
            funded == /\ account_info # <<>>
                      /\ account_info[1].buying_power >= TradePositionSize
            quantity == IF current_price = 0 THEN 0
                        ELSE TradePositionSize \div current_price
            submits == /\ old_enough /\ existing_position = <<>> /\ funded
                       /\ current_price # 0 /\ quantity >= 1
            ordered == submits /\ submit_ok
        IN
        /\ orders' = IF ordered
                     THEN Append(orders, [side |-> "BUY", symbol |-> alert.symbol,
                                          alert |-> id])
                     ELSE orders
        /\ broker' = IF ordered
                     THEN [broker EXCEPT ![alert.symbol] =
                               FilledBuy(broker[alert.symbol], quantity, current_price)]
                     ELSE broker
        /\ alerts' = IF ordered /\ commit_ok
                     THEN [alerts EXCEPT ![id].status = "triggered"]
                     ELSE alerts
        /\ last' = IF old_enough
                   THEN [op |-> "buy", alert |-> id, ok |-> ordered /\ commit_ok]
                   ELSE NoCall
        /\ IF ordered /\ ~commit_ok /\ ~session_usable
           THEN phase' = "exits" /\ todo' = <<>>
           ELSE phase' = phase /\ todo' = Tail(todo)
    /\ UNCHANGED <<now, cycles, failed_exits, running, stop_at>>

\* check_and_exit_positions: the guard and the query for the triggered alerts
StartExits ==
    /\ engine \in {"live", "loop", "held"} /\ phase = "buys" /\ todo = <<>>
    /\ UNCHANGED nonlive
    /\ phase' = "exits"
    /\ todo' = IF trading_active(enabled, client)
               THEN AlertsWithStatus("triggered")
               ELSE <<>>
    /\ UNCHANGED <<alerts, broker, orders, now, cycles, last, failed_exits, running, stop_at>>

\* TradeExecutor.check_exit_conditions: "take_profit", "max_holding" or "" for None
exit_conditions(alert, position, current_price) ==
    IF position = <<>> THEN ""
    ELSE IF /\ current_price # 0
            /\ RLe(RMul(position[1].avg_entry_price, Pct(100 + TakeProfitPct)),
                   RInt(current_price))
    THEN "take_profit"
    ELSE IF (now - alert.ts) \div MinutesPerDay >= MaxHoldingDays
    THEN "max_holding"
    ELSE ""

\* ExitStatus that does not look at what execute_sell_order returned
ExitStatus_Always(sold) == "expired"

\* if self.execute_sell_order(...): alert.status = "expired"
ExitStatus(sold) == IF sold THEN "expired" ELSE "triggered"

\* one iteration of the loop of check_and_exit_positions
ExitStep ==
    /\ engine \in {"live", "loop", "held"} /\ phase = "exits" /\ todo # <<>>
    /\ UNCHANGED nonlive
    /\ \E lookup_ok \in BOOLEAN, current_price \in Quotes, sell_lookup_ok \in BOOLEAN,
          submit_ok \in BOOLEAN, commit_ok \in BOOLEAN :
        LET id == Head(todo)
            alert == alerts[id]
            exit_reason == exit_conditions(alert, get_position(alert.symbol, lookup_ok),
                                           current_price)
            position == get_position(alert.symbol, sell_lookup_ok)
            submits == exit_reason # "" /\ position # <<>>
            sold == submits /\ submit_ok
            status == ExitStatus(sold)
        IN
        /\ orders' = IF sold
                     THEN Append(orders, [side |-> "SELL", symbol |-> alert.symbol,
                                          alert |-> id])
                     ELSE orders
        /\ broker' = IF sold
                     THEN [broker EXCEPT ![alert.symbol] = NoBrokerPosition]
                     ELSE broker
        /\ alerts' = IF exit_reason # "" /\ status # alert.status /\ commit_ok
                     THEN [alerts EXCEPT ![id].status = status]
                     ELSE alerts
        /\ last' = IF exit_reason # ""
                   THEN [op |-> "sell", alert |-> id, ok |-> sold]
                   ELSE NoCall
        /\ failed_exits' = IF exit_reason # "" /\ ~sold
                           THEN failed_exits \cup {id}
                           ELSE failed_exits
        /\ todo' = IF exit_reason # "" /\ status # alert.status /\ ~commit_ok
                   THEN <<>>
                   ELSE Tail(todo)
    /\ UNCHANGED <<now, cycles, phase, running, stop_at>>

\* the clock at time t. The run that is followed without end keeps its clock up
\* to the end of the holding time of its alert (taken at time 0), beyond which no
\* test of the executor tells two times apart
ClockEnd == MaxHoldingDays * MinutesPerDay

Clock(t) == IF engine = "held" /\ t > ClockEnd THEN ClockEnd ELSE t

\* the sleeps of that run: a day of cycles, or the whole holding time
DayAdvances == {MinutesPerDay, ClockEnd}

Sleeps == IF engine = "held" THEN DayAdvances ELSE Advances

\* session.close() and asyncio.sleep(interval_seconds)
EndCycle ==
    /\ engine \in {"live", "loop", "held"} /\ phase = "exits" /\ todo = <<>>
    /\ UNCHANGED nonlive
    /\ \E minutes \in Sleeps : now' = Clock(now + minutes)
    /\ cycles' = IF engine = "held" THEN cycles ELSE cycles + 1
    /\ phase' = "idle"
    /\ last' = NoCall
    /\ UNCHANGED <<alerts, broker, orders, todo, failed_exits, running, stop_at>>

\* what a cycle of run_loop can raise outside the calls that catch their own errors
Exceptions == {"Exception", "KeyboardInterrupt"}

\* a loop that catches KeyboardInterrupt only, as TradingScheduler.run does
run_loop_handler_InterruptOnly(exception, flag) == [running |-> FALSE, phase |-> "stopped"]

\* the except clauses of run_loop: KeyboardInterrupt clears the flag and breaks,
\* any Exception is logged and followed by the sleep of the interval
run_loop_handler(exception, flag) ==
    IF exception = "KeyboardInterrupt"
    THEN [running |-> FALSE, phase |-> "stopped"]
    ELSE [running |-> flag, phase |-> "idle"]

\* an iteration of run_loop that raises: in get_session() before the alerts are
\* processed, or in session.close() after them
CycleError ==
    /\ engine = "loop" /\ cycles < MaxCycles
    /\ \/ phase = "idle" /\ loop_continues(running)
       \/ phase = "exits" /\ todo = <<>>
    /\ UNCHANGED nonlive
    /\ \E exception \in Exceptions, minutes \in Advances :
        LET handled == run_loop_handler(exception, running)
        IN
        /\ running' = handled.running
        /\ phase' = handled.phase
        /\ now' = IF exception = "KeyboardInterrupt" THEN now ELSE now + minutes
        /\ last' = [op |-> exception, alert |-> 0, ok |-> FALSE]
    /\ cycles' = cycles + 1
    /\ UNCHANGED <<alerts, broker, orders, todo, failed_exits, stop_at>>

\* RealtimeMonitor.stop, called while run_loop runs
Stop ==
    /\ engine = "loop" /\ phase # "stopped" /\ running
    /\ UNCHANGED nonlive
    /\ running' = FALSE
    /\ stop_at' = <<phase>>
    /\ UNCHANGED <<alerts, broker, orders, now, cycles, phase, todo, last, failed_exits>>

\* run_loop returns: the loop test fails after the sleep
ExitLoop ==
    /\ engine = "loop" /\ phase = "idle" /\ ~loop_continues(running)
    /\ UNCHANGED nonlive
    /\ phase' = "stopped"
    /\ UNCHANGED <<alerts, broker, orders, now, cycles, todo, last, failed_exits, running, stop_at>>

-----------------------------------------------------------------------------
(* Initial states and next-state relations *)

NoPerformance == [wins |-> 0, losses |-> 0, total_profit |-> RInt(0)]

NoFnCall == [fn |-> "none"]

NoDailyData == [Low |-> 0, High |-> 0, Close |-> 0]

\* TradeExecutor.__init__: enabled is TRADING_ENABLED == "true"; the client is
\* made only when enabled, and stays None without credentials or when the
\* construction of the Alpaca client raises. The parts of the program that do
\* not trade are run beside an executor that works.
TradeExecutor_init ==
    /\ enabled \in (IF engine = "live" THEN BOOLEAN ELSE {TRUE})
    /\ client \in (IF engine = "live" /\ enabled THEN BOOLEAN ELSE {enabled})

\* no alert, no position at the broker, run_loop about to start
LiveInit ==
    /\ alerts = <<>>
    /\ broker = [s \in LiveSymbols |-> NoBrokerPosition]
    /\ orders = <<>>
    /\ now = 0
    /\ cycles = 0
    /\ phase = "idle"
    /\ todo = <<>>
    /\ last = NoCall
    /\ failed_exits = {}
    /\ running = TRUE
    /\ stop_at = <<>>
    /\ candles = <<>>
    /\ live_exit = <<>>
    /\ rsi_values = {}
    /\ rsi_call = NoRsiCall
    /\ fn_call = NoFnCall
    /\ daily_data = NoDailyData
    /\ mr_keys = {}
    /\ TradeExecutor_init
    /\ notifications = <<>>

Init ==
    /\ engine \in {"improved", "current", "meanrev"}
    /\ day = 0
    /\ today = 0
    /\ window \in (IF engine = "improved" THEN {"before", "in"} ELSE {"in"})
    /\ execution_price = 0
    /\ positions = <<>>
    /\ cmp_positions = <<>>
    /\ strategy_positions = <<>>
    /\ shares_owned = RInt(0)
    /\ trades = <<>>
    /\ total_invested = RInt(0)
    /\ total_sold_value = RInt(0)
    /\ stock_performance = NoPerformance
    /\ result = <<>>
    /\ bar_indicators = <<>>
    /\ tick_start = <<>>
    /\ tick_from = 0
    /\ last_signal = <<>>
    /\ LiveInit

Next ==
    \/ ImprovedSkipTick
    \/ ImprovedTick
    \/ ImprovedFinish
    \/ CurrentTick
    \/ MeanRevTick
    \/ ComparatorFinish

Spec == Init /\ [][Next]_vars

InitLive ==
    /\ engine = "live"
    /\ day = 0
    /\ today = 0
    /\ window = "in"
    /\ execution_price = 0
    /\ positions = <<>>
    /\ cmp_positions = <<>>
    /\ strategy_positions = <<>>
    /\ shares_owned = RInt(0)
    /\ trades = <<>>
    /\ total_invested = RInt(0)
    /\ total_sold_value = RInt(0)
    /\ stock_performance = NoPerformance
    /\ result = <<>>
    /\ bar_indicators = <<>>
    /\ tick_start = <<>>
    /\ tick_from = 0
    /\ last_signal = <<>>
    /\ LiveInit

NextLive ==
    \/ CreateAlert
    \/ StartBuys
    \/ BuyStep
    \/ StartExits
    \/ ExitStep
    \/ EndCycle

SpecLive == InitLive /\ [][NextLive]_vars

\* run_loop with its error handlers and stop(), over a database that holds one
\* pending alert
InitLoop ==
    /\ engine = "loop"
    /\ day = 0
    /\ today = 0
    /\ window = "in"
    /\ execution_price = 0
    /\ positions = <<>>
    /\ cmp_positions = <<>>
    /\ strategy_positions = <<>>
    /\ shares_owned = RInt(0)
    /\ trades = <<>>
    /\ total_invested = RInt(0)
    /\ total_sold_value = RInt(0)
    /\ result = <<>>
    /\ bar_indicators = <<>>
    /\ tick_start = <<>>
    /\ tick_from = 0
    /\ last_signal = <<>>
    /\ stock_performance = NoPerformance
    /\ alerts = <<[symbol |-> "AAPL", ts |-> 0, status |-> "pending"]>>
    /\ broker = [s \in LiveSymbols |-> NoBrokerPosition]
    /\ orders = <<>>
    /\ now = 0
    /\ cycles = 0
    /\ phase = "idle"
    /\ todo = <<>>
    /\ last = NoCall
    /\ failed_exits = {}
    /\ running = TRUE
    /\ stop_at = <<>>
    /\ candles = <<>>
    /\ live_exit = <<>>
    /\ rsi_values = {}
    /\ rsi_call = NoRsiCall
    /\ fn_call = NoFnCall
    /\ daily_data = NoDailyData
    /\ mr_keys = {}
    /\ enabled = TRUE
    /\ client = TRUE
    /\ notifications = <<>>

NextLoop ==
    \/ StartBuys
    \/ BuyStep
    \/ StartExits
    \/ ExitStep
    \/ EndCycle
    \/ CycleError
    \/ Stop
    \/ ExitLoop

SpecLoop == InitLoop /\ [][NextLoop]_vars

\* the event loop runs run_loop to its next await or return, and every call it
\* makes returns
SpecLoopFair ==
    SpecLoop /\ WF_vars(StartBuys \/ BuyStep \/ StartExits \/ ExitStep \/ EndCycle \/ ExitLoop)

-----------------------------------------------------------------------------
(* app/backtest/engine.py BacktestEngine against TradeExecutor on the same bars *)

MaxBars == 3                \* candles fed after the alert

BarGaps == {5, 28795, 28800}    \* minutes from one candle to the next
BarCloses == {100, 104}         \* Candle.close
BarHighs == {100, 104, 108}     \* Candle.high

\* indexes of the candles with Candle.ts > t, in ts order
CandlesAfter(t) == {i \in 1..Len(candles) : candles[i].ts > t}

\* BacktestEngine.find_entry_candle: index of the entry candle, 0 for None
find_entry_candle(alert_time) ==
    IF CandlesAfter(alert_time) = {} THEN 0
    ELSE CHOOSE i \in CandlesAfter(alert_time) : \A j \in CandlesAfter(alert_time) : i <= j

\* the two tests of find_exit_candle taken in the other order
ExitReasonAt_HoldingFirst(candle, entry_time, entry_price, take_profit_pct, max_holding_days) ==
    IF candle.ts >= entry_time + max_holding_days * MinutesPerDay
    THEN "max_holding"
    ELSE IF RLe(RMul(RInt(entry_price), Pct(100 + take_profit_pct)), RInt(candle.high))
    THEN "take_profit"
    ELSE ""

\* the test of find_exit_candle on one candle: its exit reason, "" for none
ExitReasonAt(candle, entry_time, entry_price, take_profit_pct, max_holding_days) ==
    IF RLe(RMul(RInt(entry_price), Pct(100 + take_profit_pct)), RInt(candle.high))
    THEN "take_profit"
    ELSE IF candle.ts >= entry_time + max_holding_days * MinutesPerDay
    THEN "max_holding"
    ELSE ""

\* BacktestEngine.find_exit_candle: [candle index, reason], index 0 for None
find_exit_candle(entry_time, entry_price, take_profit_pct, max_holding_days) ==
    LET after == CandlesAfter(entry_time)
        hits == {i \in after :
                    ExitReasonAt(candles[i], entry_time, entry_price,
                                 take_profit_pct, max_holding_days) # ""}
    IN IF after = {} THEN [candle |-> 0, reason |-> "end_of_data"]
       ELSE IF hits = {} THEN [candle |-> Len(candles), reason |-> "end_of_data"]
       ELSE LET i == CHOOSE i \in hits : \A j \in hits : i <= j
            IN [candle |-> i,
                reason |-> ExitReasonAt(candles[i], entry_time, entry_price,
                                        take_profit_pct, max_holding_days)]

\* entry_price * (1 + take_profit_pct / 100)
take_profit_price(entry_price, take_profit_pct) ==
    RMul(RInt(entry_price), Pct(100 + take_profit_pct))

\* simulate_trade: min(take_profit_price, exit_candle.close) for a take-profit
\* exit, exit_candle.close otherwise
exit_price_of(exit_reason, entry_price, take_profit_pct, close) ==
    IF exit_reason = "take_profit"
    THEN RMin(take_profit_price(entry_price, take_profit_pct), RInt(close))
    ELSE RInt(close)

\* ((exit_price - entry_price) / entry_price) * 100
pnl_of(exit_price, entry_price) ==
    RMul(RDivInt(RSub(exit_price, RInt(entry_price)), entry_price), RInt(100))

\* BacktestEngine.simulate_trade: <<Trade>> or <<>> for None
simulate_trade(alert) ==
    LET e == find_entry_candle(alert.ts) IN
    IF e = 0 THEN <<>>
    ELSE LET x == find_exit_candle(candles[e].ts, candles[e].close,
                                   TakeProfitPct, MaxHoldingDays)
         IN IF x.candle = 0 THEN <<>>
            ELSE LET exit_price == exit_price_of(x.reason, candles[e].close,
                                                 TakeProfitPct, candles[x.candle].close)
                 IN <<[entry_time |-> candles[e].ts,
                       entry_price |-> candles[e].close,
                       exit_time |-> candles[x.candle].ts,
                       exit_price |-> exit_price,
                       exit_reason |-> x.reason,
                       pnl |-> pnl_of(exit_price, candles[e].close)]>>

\* a new candle of the symbol is stored; the clock is at its timestamp
ArriveBar ==
    /\ engine = "parity" /\ phase = "idle" /\ Len(candles) < MaxBars
    /\ UNCHANGED nonparity
    /\ \E gap \in BarGaps, close \in BarCloses, high \in BarHighs :
        /\ high >= close
        /\ now' = now + gap
        /\ candles' = Append(candles, [ts |-> now + gap, high |-> high, close |-> close])
    /\ phase' = "bar"
    /\ UNCHANGED <<alerts, broker, orders, cycles, todo, last, failed_exits, live_exit>>

\* one cycle of run_loop on the bar just stored, with a broker and a database
\* that never fail and a quote equal to the bar's close
MonitorBar ==
    /\ engine = "parity" /\ phase = "bar"
    /\ UNCHANGED nonparity
    /\ LET id == 1
           alert == alerts[id]
           quote == candles[Len(candles)].close
           buys == /\ alert.status = "pending"
                   /\ now - alert.ts >= EntryDelayMinutes
                   /\ get_position(alert.symbol, TRUE) = <<>>
                   /\ TradePositionSize \div quote >= 1
           position == IF buys
                       THEN <<FilledBuy(broker[alert.symbol],
                                        TradePositionSize \div quote, quote)>>
                       ELSE get_position(alert.symbol, TRUE)
           tracked == buys \/ alert.status = "triggered"
           exit_reason == IF tracked THEN exit_conditions(alert, position, quote) ELSE ""
           sold == exit_reason # "" /\ position # <<>>
       IN
       /\ orders' = orders
                    \o (IF buys THEN <<[side |-> "BUY", symbol |-> alert.symbol,
                                        alert |-> id]>> ELSE <<>>)
                    \o (IF sold THEN <<[side |-> "SELL", symbol |-> alert.symbol,
                                        alert |-> id]>> ELSE <<>>)
       /\ broker' = [broker EXCEPT ![alert.symbol] =
                        IF sold \/ position = <<>> THEN NoBrokerPosition ELSE position[1]]
       /\ alerts' = [alerts EXCEPT ![id].status =
                        IF sold THEN ExitStatus(sold)
                        ELSE IF buys THEN "triggered" ELSE alert.status]
       /\ live_exit' = IF sold THEN <<[reason |-> exit_reason, time |-> now]>>
                       ELSE live_exit
    /\ phase' = "idle"
    /\ cycles' = cycles + 1
    /\ UNCHANGED <<now, todo, last, failed_exits, candles>>

InitParity ==
    /\ engine = "parity"
    /\ day = 0
    /\ today = 0
    /\ window = "in"
    /\ execution_price = 0
    /\ positions = <<>>
    /\ cmp_positions = <<>>
    /\ strategy_positions = <<>>
    /\ shares_owned = RInt(0)
    /\ trades = <<>>
    /\ total_invested = RInt(0)
    /\ total_sold_value = RInt(0)
    /\ stock_performance = NoPerformance
    /\ result = <<>>
    /\ bar_indicators = <<>>
    /\ tick_start = <<>>
    /\ tick_from = 0
    /\ last_signal = <<>>
    /\ alerts = <<[symbol |-> "AAPL", ts |-> 0, status |-> "pending"]>>
    /\ broker = [s \in LiveSymbols |-> NoBrokerPosition]
    /\ orders = <<>>
    /\ now = 0
    /\ cycles = 0
    /\ phase = "idle"
    /\ todo = <<>>
    /\ last = NoCall
    /\ failed_exits = {}
    /\ running = TRUE
    /\ stop_at = <<>>
    /\ candles = <<>>
    /\ live_exit = <<>>
    /\ rsi_values = {}
    /\ rsi_call = NoRsiCall
    /\ fn_call = NoFnCall
    /\ daily_data = NoDailyData
    /\ mr_keys = {}
    /\ enabled = TRUE
    /\ client = TRUE
    /\ notifications = <<>>

NextParity ==
    \/ ArriveBar
    \/ MonitorBar

SpecParity == InitParity /\ [][NextParity]_vars

-----------------------------------------------------------------------------
(* app/indicators.py RsiCalculator, fed by RealtimeMonitor *)

RsiPeriod == 2              \* self.period, scaled down from 14
MaxCandles == 4             \* candles stored for the symbol

LookbackMinutes == 561600   \* timedelta(days=30 * lookback_months), 13 months
RsiGaps == {5, 561600}      \* minutes from one stored candle to the next
RsiCloses == {98, 100, 101, 104}

\* a / b
RDiv(a, b) ==
    IF b.n >= 0 THEN Rat(a.n * b.d, a.d * b.n) ELSE Rat(-(a.n * b.d), a.d * (-b.n))

\* gains without the clipping: gains = deltas
gains_Unclipped(closes) ==
    [i \in 1..Len(closes) |-> IF i > 1 THEN closes[i] - closes[i - 1] ELSE 0]

\* deltas = closes.diff(); gains = deltas.where(deltas > 0, 0.0)
gains(closes) ==
    [i \in 1..Len(closes) |->
        IF i > 1 /\ closes[i] - closes[i - 1] > 0 THEN closes[i] - closes[i - 1] ELSE 0]

\* losses = -deltas.where(deltas < 0, 0.0)
losses(closes) ==
    [i \in 1..Len(closes) |->
        IF i > 1 /\ closes[i] - closes[i - 1] < 0 THEN closes[i - 1] - closes[i] ELSE 0]

\* FirstAverage over xs.iloc[:period]
FirstAverage_FromZero(xs) ==
    RDivInt(RSum([k \in 1..RsiPeriod |-> RInt(xs[k])]), RsiPeriod)

\* xs.iloc[1:period + 1].mean(); pandas position k is index k + 1 here
FirstAverage(xs) ==
    RDivInt(RSum([k \in 1..RsiPeriod |-> RInt(xs[k + 1])]), RsiPeriod)

\* (avg * (period - 1) + current) / period
Smooth(avg, current) ==
    RDivInt(RAdd(RMul(avg, RInt(RsiPeriod - 1)), RInt(current)), RsiPeriod)

\* RsiFrom without the test of avg_loss: 0 stands for the failed division
RsiFrom_NoZeroTest(avg_gain, avg_loss) ==
    IF avg_loss = RInt(0) THEN RInt(0)
    ELSE RSub(RInt(100), RDiv(RInt(100), RAdd(RInt(1), RDiv(avg_gain, avg_loss))))

\* 100.0 if avg_loss == 0, else 100 - (100 / (1 + rs))
RsiFrom(avg_gain, avg_loss) ==
    IF avg_loss = RInt(0) THEN RInt(100)
    ELSE RSub(RInt(100), RDiv(RInt(100), RAdd(RInt(1), RDiv(avg_gain, avg_loss))))

\* the loop "for i in range(self.period + 1, len(closes))"; a value is <<v>>, NaN is <<>>
RECURSIVE WilderLoop(_, _, _, _, _, _)
WilderLoop(gs, ls, i, avg_gain, avg_loss, rsi) ==
    IF i > Len(gs) THEN rsi
    ELSE LET g == Smooth(avg_gain, gs[i])
             l == Smooth(avg_loss, ls[i])
         IN WilderLoop(gs, ls, i + 1, g, l, [rsi EXCEPT ![i] = <<RsiFrom(g, l)>>])

\* compute_rsi_wilder without the test of len(closes): short input yields zeros
compute_rsi_wilder_ZeroFill(closes) ==
    IF Len(closes) < RsiPeriod + 1 THEN [i \in 1..Len(closes) |-> <<RInt(0)>>]
    ELSE LET gs == gains(closes)
             ls == losses(closes)
             avg_gain == FirstAverage(gs)
             avg_loss == FirstAverage(ls)
             first == [i \in 1..Len(closes) |->
                          IF i = RsiPeriod + 1 THEN <<RsiFrom(avg_gain, avg_loss)>>
                          ELSE <<RInt(0)>>]
         IN WilderLoop(gs, ls, RsiPeriod + 2, avg_gain, avg_loss, first)

\* RsiCalculator.compute_rsi_wilder: the Series returned, position k at index k + 1
compute_rsi_wilder(closes) ==
    IF Len(closes) < RsiPeriod + 1 THEN [i \in 1..Len(closes) |-> <<>>]
    ELSE LET gs == gains(closes)
             ls == losses(closes)
             avg_gain == FirstAverage(gs)
             avg_loss == FirstAverage(ls)
             first == [i \in 1..Len(closes) |->
                          IF i = RsiPeriod + 1 THEN <<RsiFrom(avg_gain, avg_loss)>>
                          ELSE <<>>]
         IN WilderLoop(gs, ls, RsiPeriod + 2, avg_gain, avg_loss, first)

ClosesOf(cs) == [i \in 1..Len(cs) |-> cs[i].close]

\* the rows (ts, rsi_val) of zip(df["ts"], rsi_values) with pd.notna(rsi_val)
Computed(cs) ==
    LET rsi == compute_rsi_wilder(ClosesOf(cs))
    IN {[ts |-> cs[i].ts, rsi_14 |-> rsi[i][1]] : i \in {j \in 1..Len(cs) : rsi[j] # <<>>}}

\* Candle rows with ts >= cutoff_date, in ts order
CandlesSince(cutoff_date) == SelectSeq(candles, LAMBDA c : c.ts >= cutoff_date)

\* RsiCalculator.compute_rsi_for_symbol: table rsi_values after it
compute_rsi_for_symbol ==
    LET cs == CandlesSince(now - LookbackMinutes)
        new == Computed(cs)
    IN IF Len(cs) < RsiPeriod + 1 THEN rsi_values
       ELSE {r \in rsi_values : \A c \in new : c.ts # r.ts} \cup new

\* RsiCalculator.compute_rsi_incremental: table rsi_values after it
compute_rsi_incremental(since) ==
    LET new == Computed(candles)
    IN IF Len(candles) < RsiPeriod + 1 THEN rsi_values
       ELSE rsi_values \cup
            {c \in new : c.ts >= since /\ \A r \in rsi_values : r.ts # c.ts}

\* RsiValue row of the greatest ts
LastRsi == CHOOSE r \in rsi_values : \A q \in rsi_values : q.ts <= r.ts

\* RealtimeMonitor.update_candles_for_symbol: one new candle of the symbol
StoreCandle ==
    /\ engine = "rsi" /\ phase = "idle" /\ Len(candles) < MaxCandles
    /\ UNCHANGED nonrsi
    /\ \E gap \in RsiGaps, close \in RsiCloses :
        /\ now' = now + gap
        /\ candles' = Append(candles, [ts |-> now + gap, high |-> close, close |-> close])
    /\ phase' = "rsi"
    /\ UNCHANGED <<rsi_values, rsi_call>>

\* RealtimeMonitor.update_rsi_for_symbol
UpdateRsi ==
    /\ engine \in {"rsi", "candles"} /\ phase = "rsi"
    /\ UNCHANGED nonrsi
    /\ IF rsi_values = {}
       THEN LET cs == CandlesSince(now - LookbackMinutes) IN
            /\ rsi_values' = compute_rsi_for_symbol
            /\ rsi_call' = IF Len(cs) < RsiPeriod + 1
                           THEN [mode |-> "none", since |-> 0, closes |-> <<>>, rsi |-> <<>>]
                           ELSE [mode |-> "full", since |-> 0, closes |-> ClosesOf(cs),
                                 rsi |-> compute_rsi_wilder(ClosesOf(cs))]
       ELSE /\ rsi_values' = compute_rsi_incremental(LastRsi.ts)
            /\ rsi_call' = IF Len(candles) < RsiPeriod + 1
                           THEN [mode |-> "none", since |-> 0, closes |-> <<>>, rsi |-> <<>>]
                           ELSE [mode |-> "incremental", since |-> LastRsi.ts,
                                 closes |-> ClosesOf(candles),
                                 rsi |-> compute_rsi_wilder(ClosesOf(candles))]
    /\ phase' = "idle"
    /\ UNCHANGED <<now, candles>>

\* compute_rsi_wilder called on the stored closes as they are, however few
CallWilder ==
    /\ engine = "rsi" /\ phase = "idle"
    /\ UNCHANGED nonrsi
    /\ rsi_call' = [mode |-> "direct", since |-> 0, closes |-> ClosesOf(candles),
                    rsi |-> compute_rsi_wilder(ClosesOf(candles))]
    /\ UNCHANGED <<now, candles, phase, rsi_values>>

InitRsi ==
    /\ engine = "rsi"
    /\ day = 0
    /\ today = 0
    /\ window = "in"
    /\ execution_price = 0
    /\ positions = <<>>
    /\ cmp_positions = <<>>
    /\ strategy_positions = <<>>
    /\ shares_owned = RInt(0)
    /\ trades = <<>>
    /\ total_invested = RInt(0)
    /\ total_sold_value = RInt(0)
    /\ stock_performance = NoPerformance
    /\ result = <<>>
    /\ bar_indicators = <<>>
    /\ tick_start = <<>>
    /\ tick_from = 0
    /\ last_signal = <<>>
    /\ LiveInit

NextRsi ==
    \/ StoreCandle
    \/ UpdateRsi
    \/ CallWilder

SpecRsi == InitRsi /\ [][NextRsi]_vars

-----------------------------------------------------------------------------
(* Functions applied on their own *)

\* no backtest has run: the state of the backtest variables besides engine
IdleBacktest ==
    /\ day = 0
    /\ today = 0
    /\ window = "in"
    /\ execution_price = 0
    /\ positions = <<>>
    /\ cmp_positions = <<>>
    /\ strategy_positions = <<>>
    /\ shares_owned = RInt(0)
    /\ trades = <<>>
    /\ total_invested = RInt(0)
    /\ total_sold_value = RInt(0)
    /\ result = <<>>
    /\ bar_indicators = <<>>
    /\ tick_start = <<>>
    /\ tick_from = 0
    /\ last_signal = <<>>

\* what a call of get_position_size or update_performance leaves alone
nonsizing == <<engine, day, today, window, execution_price, positions, cmp_positions,
               strategy_positions, shares_owned, trades, total_invested,
               total_sold_value, result, bar_indicators, tick_start, tick_from,
               last_signal, lvars, pvars, ivars, mvars, evars, nvars>>

MaxClosed == 5          \* sales recorded in stock_performance[symbol]

Profits == {-1, 1}      \* profit of a sale, in dollars

\* update_performance(symbol, profit), called after a sale
RecordSale ==
    /\ engine = "sizing"
    /\ stock_performance.wins + stock_performance.losses < MaxClosed
    /\ \E profit \in Profits :
        stock_performance' = update_performance(stock_performance, RInt(profit))
    /\ UNCHANGED <<fn_call, daily_data, mr_keys, nonsizing>>

\* get_position_size(symbol), called before a buy
SizePosition ==
    /\ engine = "sizing"
    /\ fn_call' = [fn |-> "get_position_size",
                   wins |-> stock_performance.wins,
                   losses |-> stock_performance.losses,
                   size |-> get_position_size(stock_performance, BasePositionSize)]
    /\ UNCHANGED <<stock_performance, daily_data, mr_keys, nonsizing>>

InitSizing ==
    /\ engine = "sizing"
    /\ stock_performance = NoPerformance
    /\ IdleBacktest
    /\ LiveInit

NextSizing ==
    \/ RecordSale
    \/ SizePosition

SpecSizing == InitSizing /\ [][NextSizing]_vars

\* what a call of get_execution_price leaves alone
nonprice == <<bvars, lvars, pvars, ivars, mvars, evars, nvars>>

DailyLevels == {96, 100, 102, 104}      \* Low, Close and High of a daily bar
IntradayCloses == {94, 100, 103, 106}   \* Close of the 5-minute bar nearest 15:45

\* the rows of daily data with Low <= Close <= High
DailyRows ==
    {row \in [Low : DailyLevels, High : DailyLevels, Close : DailyLevels] :
        row.Low <= row.Close /\ row.Close <= row.High}

\* how far get_execution_price gets before it returns or falls back:
\* the date conversion raises; the intraday lookup yields a bar; or the date is
\* older than 60 days, the lookup raises or it yields nothing
PricePaths == {"conversion_failed", "intraday", "fallback"}

\* the code after "Fallback: Simulate realistic execution price near close",
\* without the final max / min
SimulatedPrice_NoClamp(row) ==
    IF 2 * row.Close >= row.High + row.Low
    THEN RMul(RInt(row.Close), Rat(998, 1000))
    ELSE RInt(row.Close)

\* the code after "Fallback: Simulate realistic execution price near close"
SimulatedPrice(row) ==
    LET simulated == IF 2 * row.Close >= row.High + row.Low
                     THEN RMul(RInt(row.Close), Rat(998, 1000))
                     ELSE RInt(row.Close)
        capped == IF RLe(RInt(row.High), simulated) THEN RInt(row.High) ELSE simulated
    IN IF RLe(capped, RInt(row.Low)) THEN RInt(row.Low) ELSE capped

\* get_execution_price
get_execution_price(path, intraday_close, row) ==
    IF path = "conversion_failed" THEN RInt(row.Close)
    ELSE IF path = "intraday" /\ row.Low <= intraday_close /\ intraday_close <= row.High
    THEN RInt(intraday_close)
    ELSE SimulatedPrice(row)

\* the bar loop of backtest_strategy reaches a row of the daily data
NextRow ==
    /\ engine = "price"
    /\ daily_data' \in DailyRows
    /\ UNCHANGED <<fn_call, mr_keys, nonprice>>

\* get_execution_price(symbol, current_date, daily_data)
GetExecutionPrice ==
    /\ engine = "price"
    /\ daily_data # NoDailyData
    /\ \E path \in PricePaths, intraday_close \in IntradayCloses :
        fn_call' = [fn |-> "get_execution_price",
                    path |-> path,
                    intraday_close |-> IF path = "intraday" THEN intraday_close ELSE 0,
                    daily_data |-> daily_data,
                    price |-> get_execution_price(path, intraday_close, daily_data)]
    /\ UNCHANGED <<daily_data, mr_keys, nonprice>>

InitPrice ==
    /\ engine = "price"
    /\ stock_performance = NoPerformance
    /\ IdleBacktest
    /\ LiveInit

NextPrice ==
    \/ NextRow
    \/ GetExecutionPrice

SpecPrice == InitPrice /\ [][NextPrice]_vars

\* MeanReversionStrategy.check_signals and the entry of the backtest loop, with
\* self.positions kept across symbols

MrSymbols == 1..(MaxPositions + 1)

\* the two tests of self.positions in check_signals, without the portfolio limit
mr_entry_gate_NoLimit(symbol, keys) ==
    IF symbol \in keys THEN "Managing position" ELSE "open"

\* the two tests of self.positions in check_signals
mr_entry_gate(symbol, keys) ==
    IF symbol \in keys THEN "Managing position"
    ELSE IF Cardinality(keys) >= MaxPositions THEN "Max positions reached"
    ELSE "open"

\* check_signals(symbol, data, i) followed by "Handle buy signals"; entry_ok stands
\* for check_regime, check_entry_conditions and a position size above 0
MrEnter ==
    /\ engine = "portfolio"
    /\ \E symbol \in MrSymbols, entry_ok \in BOOLEAN :
        LET gate == mr_entry_gate(symbol, mr_keys)
            action == IF gate = "open" /\ entry_ok THEN "BUY" ELSE "HOLD"
        IN /\ mr_keys' = IF action = "BUY" /\ symbol \notin mr_keys
                         THEN mr_keys \cup {symbol} ELSE mr_keys
           /\ fn_call' = [fn |-> "check_signals", symbol |-> symbol,
                          held |-> symbol \in mr_keys,
                          open_positions |-> Cardinality(mr_keys),
                          entry_ok |-> entry_ok, action |-> action]
    /\ UNCHANGED <<daily_data, nonprice>>

\* a full exit: del strategy.positions[symbol]
MrExit ==
    /\ engine = "portfolio"
    /\ \E symbol \in mr_keys : mr_keys' = mr_keys \ {symbol}
    /\ UNCHANGED <<fn_call, daily_data, nonprice>>

InitPortfolio ==
    /\ engine = "portfolio"
    /\ stock_performance = NoPerformance
    /\ IdleBacktest
    /\ LiveInit

NextPortfolio ==
    \/ MrEnter
    \/ MrExit

SpecPortfolio == InitPortfolio /\ [][NextPortfolio]_vars

-----------------------------------------------------------------------------
(* RealtimeMonitor.update_candles_for_symbol on what the price provider returns *)

MaxBatch == 2               \* candles in one answer of get_latest_candles

FetchCloses == {100, 104}

\* the close of the bar of timestamp ts, the same in every answer that holds it
BarClose(ts) == IF ts % 2 = 0 THEN 100 ELSE 104

\* CandleData of the symbol with a timestamp up to t
Fetched(t) == {[ts |-> k, high |-> BarClose(k), close |-> BarClose(k)] : k \in 1..t}

\* answers of get_latest_candles at time t, in any order and with repetitions
Batches(t) == UNION {[1..n -> Fetched(t)] : n \in 0..MaxBatch}

\* the latest stored timestamp, or a day before now
Since == IF candles = <<>> THEN now - MinutesPerDay ELSE candles[Len(candles)].ts

\* the table with row added, as order_by(Candle.ts) returns it
InsertByTs(rows, row) ==
    SelectSeq(rows, LAMBDA c : c.ts <= row.ts) \o <<row>>
        \o SelectSeq(rows, LAMBDA c : c.ts > row.ts)

\* a filter that lets every fetched candle through
is_new_NoFilter(candle_data, since, rows) == TRUE

\* if candle_data.ts > since, and no row of that symbol and ts exists
is_new(candle_data, since, rows) ==
    /\ candle_data.ts > since
    /\ \A i \in 1..Len(rows) : rows[i].ts # candle_data.ts

\* the loop over new_candles: the rows of the session after it
RECURSIVE StoreNew(_, _, _)
StoreNew(new_candles, since, rows) ==
    IF new_candles = <<>> THEN rows
    ELSE StoreNew(Tail(new_candles), since,
                  IF is_new(Head(new_candles), since, rows)
                  THEN InsertByTs(rows, Head(new_candles))
                  ELSE rows)

\* RealtimeMonitor.update_candles_for_symbol, at the next wall-clock time
UpdateCandles ==
    /\ engine = "candles" /\ phase = "idle" /\ now < MaxCandles
    /\ UNCHANGED <<bvars, mvars, evars, nvars>>
    /\ now' = now + 1
    /\ \E new_candles \in Batches(now + 1), commit_ok \in BOOLEAN :
        LET rows == StoreNew(new_candles, Since, candles)
        IN
        /\ candles' = IF commit_ok THEN rows ELSE candles
        /\ fn_call' = [fn |-> "update_candles_for_symbol", since |-> Since,
                       new_candles |-> new_candles,
                       stored_count |-> IF commit_ok THEN Len(rows) - Len(candles) ELSE 0]
    /\ phase' = "rsi"
    /\ UNCHANGED <<alerts, broker, orders, cycles, todo, last, failed_exits, live_exit,
                   rsi_values, rsi_call, daily_data, mr_keys>>

InitCandles ==
    /\ engine = "candles"
    /\ IdleBacktest
    /\ stock_performance = NoPerformance
    /\ LiveInit

NextCandles ==
    \/ UpdateCandles
    \/ UpdateRsi

SpecCandles == InitCandles /\ [][NextCandles]_vars

-----------------------------------------------------------------------------
(* app/alerts.py AlertService.detect_cross_under on the stored oscillator values *)

RsiThreshold == 28          \* RsiConfig.threshold: float = 28.0

RsiLevels == {24, 28, 30}

\* the rows of query(RsiValue).order_by(RsiValue.ts.desc()).limit(2).all()
RECURSIVE LastRows(_, _)
LastRows(rows, n) ==
    IF n = 0 \/ rows = {} THEN <<>>
    ELSE LET r == CHOOSE x \in rows : \A y \in rows : y.ts <= x.ts
         IN <<r>> \o LastRows(rows \ {r}, n - 1)

\* query(Candle).filter_by(symbol, ts).first(): <<candle>>, <<>> for None
CandleAt(rows, ts) ==
    LET found == SelectSeq(rows, LAMBDA c : c.ts = ts)
    IN IF found = <<>> THEN <<>> ELSE <<Head(found)>>

\* a detector that looks at the current value only
detect_cross_under_CurrentOnly(rows, candle_rows) ==
    LET last_two == LastRows(rows, 2)
    IN IF Len(last_two) < 2 THEN <<>>
       ELSE LET current_rsi == last_two[1]
                candle == CandleAt(candle_rows, current_rsi.ts)
            IN IF RLt(current_rsi.rsi_14, RInt(RsiThreshold)) /\ candle # <<>>
               THEN <<[ts |-> current_rsi.ts, rsi_value |-> current_rsi.rsi_14,
                       price |-> candle[1].close]>>
               ELSE <<>>

\* AlertService.detect_cross_under: <<event>>, <<>> for None
detect_cross_under(rows, candle_rows) ==
    LET last_two == LastRows(rows, 2)
    IN IF Len(last_two) < 2 THEN <<>>
       ELSE LET current_rsi == last_two[1]
                previous_rsi == last_two[2]
                candle == CandleAt(candle_rows, current_rsi.ts)
            IN IF /\ RLe(RInt(RsiThreshold), previous_rsi.rsi_14)
                  /\ RLt(current_rsi.rsi_14, RInt(RsiThreshold))
                  /\ candle # <<>>
               THEN <<[ts |-> current_rsi.ts, rsi_value |-> current_rsi.rsi_14,
                       price |-> candle[1].close]>>
               ELSE <<>>

\* one more oscillator value of the symbol is stored, with or without its candle
StoreRsiValue ==
    /\ engine = "alerts" /\ now < MaxCandles
    /\ UNCHANGED <<bvars, mvars, evars, nvars>>
    /\ now' = now + 1
    /\ \E level \in RsiLevels, close \in FetchCloses, has_candle \in BOOLEAN :
        /\ rsi_values' = rsi_values \cup {[ts |-> now + 1, rsi_14 |-> RInt(level)]}
        /\ candles' = IF has_candle
                      THEN Append(candles, [ts |-> now + 1, high |-> close, close |-> close])
                      ELSE candles
    /\ UNCHANGED <<alerts, broker, orders, cycles, phase, todo, last, failed_exits,
                   live_exit, rsi_call, cvars>>

\* a call of AlertService.detect_cross_under(symbol, session)
DetectCrossUnder ==
    /\ engine = "alerts"
    /\ UNCHANGED <<bvars, lvars, pvars, ivars, mvars, evars, nvars>>
    /\ LET last_two == LastRows(rsi_values, 2)
       IN fn_call' = [fn |-> "detect_cross_under",
                      rsi_14 |-> [i \in 1..Len(last_two) |-> last_two[i].rsi_14],
                      has_candle |-> /\ last_two # <<>>
                                     /\ CandleAt(candles, last_two[1].ts) # <<>>,
                      event |-> detect_cross_under(rsi_values, candles)]
    /\ UNCHANGED <<daily_data, mr_keys>>

InitAlerts ==
    /\ engine = "alerts"
    /\ IdleBacktest
    /\ stock_performance = NoPerformance
    /\ LiveInit

NextAlerts ==
    \/ StoreRsiValue
    \/ DetectCrossUnder

SpecAlerts == InitAlerts /\ [][NextAlerts]_vars

-----------------------------------------------------------------------------
(* app/realtime.py RealtimeMonitor.update_symbol, cycle after cycle *)

\* AlertService.create_alert: the rows of table alerts after the call
create_alert(rows, symbol, event) ==
    IF \E i \in 1..Len(rows) : rows[i].symbol = symbol /\ rows[i].ts = event.ts
    THEN rows
    ELSE Append(rows, [symbol |-> symbol, ts |-> event.ts, status |-> "pending"])

\* update_candles_for_symbol and update_rsi_for_symbol of one cycle: the bar that
\* closed since the last cycle, if any, is stored with its oscillator value
UpdateSymbolData ==
    /\ engine = "monitor" /\ phase = "idle" /\ cycles < MaxCycles
    /\ UNCHANGED <<bvars, mvars, evars, nvars>>
    /\ \E arrived \in BOOLEAN, level \in RsiLevels :
        /\ arrived => now < MaxCandles
        /\ now' = IF arrived THEN now + 1 ELSE now
        /\ rsi_values' = IF arrived
                         THEN rsi_values \cup {[ts |-> now + 1, rsi_14 |-> RInt(level)]}
                         ELSE rsi_values
        /\ candles' = IF arrived
                      THEN Append(candles, [ts |-> now + 1, high |-> BarClose(now + 1),
                                            close |-> BarClose(now + 1)])
                      ELSE candles
        /\ last' = [op |-> "update", alert |-> 0, ok |-> arrived]
    /\ phase' = "check"
    /\ UNCHANGED <<alerts, broker, orders, cycles, todo, failed_exits, live_exit,
                   rsi_call, cvars>>

\* check_alerts_for_symbol of the cycle: detect_cross_under, then create_alert and
\* send_alert_notification for the event it returned
CheckAlerts ==
    /\ engine = "monitor" /\ phase = "check"
    /\ UNCHANGED <<bvars, pvars, ivars, cvars, mvars, evars>>
    /\ \E symbol \in LiveSymbols :
        LET event == detect_cross_under(rsi_values, candles)
        IN IF event # <<>>
           THEN /\ alerts' = create_alert(alerts, symbol, event[1])
                /\ notifications' = Append(notifications,
                                           [symbol |-> symbol, ts |-> event[1].ts])
           ELSE UNCHANGED <<alerts, notifications>>
    /\ phase' = "idle"
    /\ cycles' = cycles + 1
    /\ UNCHANGED <<broker, orders, now, todo, last, failed_exits>>

InitMonitor ==
    /\ engine = "monitor"
    /\ IdleBacktest
    /\ stock_performance = NoPerformance
    /\ LiveInit

NextMonitor ==
    \/ UpdateSymbolData
    \/ CheckAlerts

SpecMonitor == InitMonitor /\ [][NextMonitor]_vars

-----------------------------------------------------------------------------
(* run_loop followed without end over one position that is held *)

HeldQuantity == TradePositionSize \div 100

\* the alert of time 0 was bought at 100 five minutes later: it is 'triggered'
\* and the broker holds its position
InitHeld ==
    /\ engine = "held"
    /\ IdleBacktest
    /\ stock_performance = NoPerformance
    /\ alerts = <<[symbol |-> "AAPL", ts |-> 0, status |-> "triggered"]>>
    /\ broker = [s \in LiveSymbols |-> FilledBuy(NoBrokerPosition, HeldQuantity, 100)]
    /\ orders = <<[side |-> "BUY", symbol |-> "AAPL", alert |-> 1]>>
    /\ now = EntryDelayMinutes
    /\ cycles = 0
    /\ phase = "idle"
    /\ todo = <<>>
    /\ last = NoCall
    /\ failed_exits = {}
    /\ running = TRUE
    /\ stop_at = <<>>
    /\ candles = <<>>
    /\ live_exit = <<>>
    /\ rsi_values = {}
    /\ rsi_call = NoRsiCall
    /\ fn_call = NoFnCall
    /\ daily_data = NoDailyData
    /\ mr_keys = {}
    /\ enabled = TRUE
    /\ client = TRUE
    /\ notifications = <<>>

NextHeld ==
    \/ StartBuys
    \/ StartExits
    \/ ExitStep
    \/ EndCycle

SpecHeld == InitHeld /\ [][NextHeld]_vars

\* a step of check_and_exit_positions in which the broker accepted the sell order
AcceptedSell == ExitStep /\ last'.op = "sell" /\ last'.ok

\* run_loop runs cycle after cycle, and the broker does not refuse for ever the
\* sell orders the executor keeps submitting
SpecHeldFair ==
    /\ SpecHeld
    /\ WF_vars(StartBuys) /\ WF_vars(StartExits) /\ WF_vars(ExitStep) /\ WF_vars(EndCycle)
    /\ SF_vars(AcceptedSell)

-----------------------------------------------------------------------------
(* Properties of the backtests *)

\* the trades appended by the bar processed last
TickTrades == SubSeq(trades, tick_from + 1, Len(trades))

TickSells == SelectSeq(TickTrades, LAMBDA t : t.type = "SELL")

StopReasons == {"STOP_LOSS", "INITIAL_STOP"}

\* the stop-loss and the trailing-stop condition of a position held at the start
\* of the bar, at the bar's price
StopLossHolds(p) ==
    CASE engine = "improved" ->
            RLe(RInt(execution_price),
                RMul(RInt(p.entry_price), Pct(100 - StopLossPct)))
      [] engine = "current" ->
            RLe(RInt(execution_price),
                RMul(RInt(p.entry_price), Pct(100 - StopLossPct)))
      [] engine = "meanrev" ->
            RLe(RInt(execution_price),
                RSub(RInt(p.entry_price), Rat(3 * p.atr_at_entry, 2)))

TrailingStopOf(p) ==
    CASE engine = "improved" -> p.trailing_stop_price
      [] engine = "current" -> p.trailing_stop
      [] engine = "meanrev" -> mr_trailing_stop(p.highest_price, p.atr_at_entry)

TrailingStopHolds(p) == RLe(RInt(execution_price), TrailingStopOf(p))

\* the sales of position p among the trades of the bar
SellsOf(p) ==
    IF engine = "improved"
    THEN SelectSeq(TickSells, LAMBDA t : t.pos = p.id)
    ELSE TickSells

\* the position p of the start of the bar as it is held after the bar, or <<>>
After(p) ==
    CASE engine = "improved" -> SelectSeq(positions, LAMBDA q : q.id = p.id)
      [] engine = "current" -> cmp_positions
      [] engine = "meanrev" -> strategy_positions

Held == {tick_start[i] : i \in 1..Len(tick_start)}

\* C1: on a bar where both the stop-loss and the trailing-stop condition of a
\* held position hold, the position is sold with reason STOP_LOSS (INITIAL_STOP
\* in the mean-reversion strategy) and never with reason TRAILING_STOP.
C1_StopLossWins ==
    \A p \in Held :
        (StopLossHolds(p) /\ TrailingStopHolds(p)) =>
            /\ Len(SellsOf(p)) = 1
            /\ SellsOf(p)[1].reason \in StopReasons
            /\ SellsOf(p)[1].shares = p.shares

\* the literal scenario: entry 100, highest 120, price 80
C1_Witness ==
    /\ engine = "improved"
    /\ \E p \in Held :
        /\ p.entry_price = 100 /\ p.highest_price = 120 /\ execution_price = 80
        /\ StopLossHolds(p) /\ TrailingStopHolds(p)
        /\ RLt(p.stop_loss_price, p.trailing_stop_price)
        /\ Len(SellsOf(p)) = 1 /\ SellsOf(p)[1].reason = "STOP_LOSS"

\* C2: from one bar to the next the trailing stop of a held position never
\* decreases.
C2_TrailingStopMonotone ==
    \A p \in Held :
        \A i \in 1..Len(After(p)) :
            RLe(TrailingStopOf(p), TrailingStopOf(After(p)[i]))

\* a bar ratcheted the trailing stop of a position that stays open
C2_Witness ==
    \E p \in Held :
        /\ Len(After(p)) = 1
        /\ RLt(TrailingStopOf(p), TrailingStopOf(After(p)[1]))
        /\ execution_price > p.highest_price

\* C3: one bar yields at most one exit per position held.
C3_AtMostOneExit ==
    /\ \A p \in Held : Len(SellsOf(p)) <= 1
    /\ \A i, j \in 1..Len(TickSells) :
        (i # j /\ engine = "improved") => TickSells[i].pos # TickSells[j].pos
    /\ engine # "improved" => Len(TickSells) <= 1

\* a bar with a stop exit of one position and an overbought sale of another one
C3_Witness ==
    /\ engine = "improved"
    /\ \E i, j \in 1..Len(TickSells) :
        /\ TickSells[i].reason \in {"STOP_LOSS", "TRAILING_STOP"}
        /\ TickSells[j].reason = "OVERBOUGHT"
        /\ TickSells[i].pos # TickSells[j].pos

\* the bar is a mean-reversion bar that started with a position
MrHeld == engine = "meanrev" /\ Len(tick_start) = 1 /\ Len(bar_indicators) = 1

MrDaysHeld == bar_indicators[1].current_date - tick_start[1].entry_date

MrTimeStopExit ==
    /\ Len(TickSells) = 1
    /\ TickSells[1].reason = "TIME_STOP_3DAYS"
    /\ TickSells[1].shares = tick_start[1].shares
    /\ strategy_positions = <<>>
    /\ shares_owned = RInt(0)

\* C8: on a bar where the holding period is reached and neither the initial
\* stop nor the trailing stop fires, the bar exits all shares with reason
\* TIME_STOP, whether or not TP1 or TP2 is met on that bar.
C8_TimeStopOverridesTargets ==
    (/\ MrHeld
     /\ MrDaysHeld >= TimeStopDays
     /\ ~StopLossHolds(tick_start[1])
     /\ ~TrailingStopHolds(tick_start[1])) => MrTimeStopExit

\* the trades of the round trip open at trade j: from the last BUY before j
RoundTripStart(j) ==
    CHOOSE b \in 0..j :
        /\ b = 0 \/ trades[b].type = "BUY"
        /\ \A k \in (b + 1)..(j - 1) : trades[k].type # "BUY"

\* C9: within a round trip TP1 is taken at most once, TP2 only after TP1, and
\* after a full exit nothing is sold until the next entry; the stage flag of
\* a held position never goes back.
C9_StageOrder ==
    engine = "meanrev" =>
        /\ \A j \in 1..Len(trades) :
            LET b == RoundTripStart(j)
                before == {k \in (b + 1)..(j - 1) : trades[k].type = "SELL"}
            IN trades[j].type = "SELL" =>
                /\ b >= 1
                /\ \A k \in before : trades[k].reason = "TP1_20DMA"
                /\ trades[j].reason = "TP1_20DMA" => before = {}
                /\ trades[j].reason = "TP2_MEDIAN" => Cardinality(before) = 1
                /\ Cardinality(before) <= 1
        /\ (Len(tick_start) = 1 /\ Len(strategy_positions) = 1
            /\ tick_start[1].tp1_hit) => strategy_positions[1].tp1_hit
        /\ (Len(strategy_positions) = 0) => shares_owned = RInt(0)

\* a round trip that went NONE -> TP1_HIT -> closed by TP2
C9_Witness ==
    /\ engine = "meanrev"
    /\ \E j \in 2..Len(trades) :
        /\ trades[j].reason = "TP2_MEDIAN"
        /\ trades[j - 1].reason = "TP1_20DMA"
    /\ strategy_positions = <<>>

MrTp1Exit == MrHeld /\ Len(TickSells) = 1 /\ TickSells[1].reason = "TP1_20DMA"

\* C10: a TP1 exit sells exactly half of the shares held, and the same position
\* record stays, with the remaining shares; no second position and no entry
\* is created.
C10_Tp1HalvesInPlace ==
    MrTp1Exit =>
        /\ RAdd(TickSells[1].shares, TickSells[1].shares) = tick_start[1].shares
        /\ Len(strategy_positions) = 1
        /\ strategy_positions[1].shares = RSub(tick_start[1].shares, TickSells[1].shares)
        /\ strategy_positions[1].entry_price = tick_start[1].entry_price
        /\ strategy_positions[1].entry_date = tick_start[1].entry_date
        /\ strategy_positions[1].atr_at_entry = tick_start[1].atr_at_entry
        /\ strategy_positions[1].tp1_hit
        /\ shares_owned = strategy_positions[1].shares
        /\ cmp_positions = <<[shares |-> shares_owned]>>
        /\ Len(TickTrades) = 1

C10_Witness ==
    /\ MrTp1Exit
    /\ RLt(RInt(0), strategy_positions[1].shares)
    /\ RLt(strategy_positions[1].shares, tick_start[1].shares)

-----------------------------------------------------------------------------
(* Properties of the live trade executor *)

\* number of accepted orders of one side placed for alert id
OrderCount(log, side, id) ==
    Cardinality({k \in 1..Len(log) : log[k].side = side /\ log[k].alert = id})

\* number of accepted orders of one side placed for a symbol
SymbolOrderCount(log, side, symbol) ==
    Cardinality({k \in 1..Len(log) : log[k].side = side /\ log[k].symbol = symbol})

AlertIds == 1..Len(alerts)

\* C4: running the entry step again for an alert (instrument, signal
\* timestamp) that has already been bought, while the position of its
\* instrument is open at the broker, submits no further buy order for it.
C4_NoSecondEntryWhileOpen ==
    [][\A id \in AlertIds :
          (OrderCount(orders, "BUY", id) >= 1 /\ broker[alerts[id].symbol].qty > 0)
              => OrderCount(orders', "BUY", id) = OrderCount(orders, "BUY", id)]_vars

\* C5: over any sequence of monitor cycles every alert has caused at most one
\* buy order, and every symbol has been sold at most as often as it has been
\* bought (one sell order per held position), failures of commits included.
C5_AtMostOneOrderEach ==
    /\ \A id \in AlertIds : OrderCount(orders, "BUY", id) <= 1
    /\ \A symbol \in LiveSymbols :
          SymbolOrderCount(orders, "SELL", symbol) <= SymbolOrderCount(orders, "BUY", symbol)

\* a step in which execute_sell_order was called and returned False
FailedSellStep == phase = "exits" /\ todo # <<>> /\ last'.op = "sell" /\ ~last'.ok

FailedBuyStep == phase = "buys" /\ todo # <<>> /\ last'.op = "buy" /\ ~last'.ok

\* C7: an execute_buy_order that fails at any of its steps leaves the broker's
\* position for the instrument as it was and the alert 'pending'.
C7_FailedBuyLeavesNothing ==
    [][FailedBuyStep =>
          /\ broker' = broker
          /\ orders' = orders
          /\ alerts'[last'.alert].status = "pending"]_vars

-----------------------------------------------------------------------------
(* Properties of held positions *)

\* the position records held by the engine that runs
HeldNow ==
    CASE engine = "improved" -> positions
      [] engine = "current" -> cmp_positions
      [] engine = "meanrev" -> strategy_positions
      [] OTHER -> <<>>

\* C11: every position still held has shares > 0 and a highest price since
\* entry that is at least its entry price, after any sequence of bars, partial
\* sales and ratchets.
C11_HeldPositionsSound ==
    \A i \in 1..Len(HeldNow) :
        /\ RLt(RInt(0), HeldNow[i].shares)
        /\ HeldNow[i].highest_price >= HeldNow[i].entry_price

\* a position that was partly sold and whose highest price was ratcheted
C11_Witness ==
    /\ engine = "improved"
    /\ \E i \in 1..Len(positions) :
        /\ positions[i].highest_price > positions[i].entry_price
        /\ RLt(RMul(positions[i].shares, RInt(positions[i].entry_price)),
               positions[i].position_size)

-----------------------------------------------------------------------------
(* Replay against live *)

\* the live position of the alert has been entered (it is open or was sold)
LiveEntered == alerts[1].status \in {"triggered", "expired"}

\* C12: after the same bars have gone through BacktestEngine.simulate_trade
\* and through the live monitor cycle with a broker that never fails, the
\* two agree: a position is entered in one iff in the other, the live path
\* has exited iff the replay exits by take_profit or max_holding, and then at
\* the same bar and with the same reason.
C12_ReplayMatchesLive ==
    (engine = "parity" /\ phase = "idle") =>
        LET t == simulate_trade(alerts[1]) IN
        /\ LiveEntered <=> find_entry_candle(alerts[1].ts) # 0
        /\ live_exit # <<>> <=>
               (t # <<>> /\ t[1].exit_reason \in {"take_profit", "max_holding"})
        /\ live_exit # <<>> =>
               /\ t[1].exit_reason = live_exit[1].reason
               /\ t[1].exit_time = live_exit[1].time

-----------------------------------------------------------------------------
(* Properties of the RSI calculator *)

Emitted == {i \in 1..Len(rsi_call.rsi) : rsi_call.rsi[i] # <<>>}

InRange(v) == RLe(RInt(0), v) /\ RLe(v, RInt(100))

\* C13: for every close sequence of length >= period + 1, every value emitted by
\* compute_rsi_wilder lies in [0, 100]; so does every value stored from it.
C13_RsiInRange ==
    /\ Len(rsi_call.closes) >= RsiPeriod + 1 =>
           \A i \in Emitted : InRange(rsi_call.rsi[i][1])
    /\ \A r \in rsi_values : InRange(r.rsi_14)

\* a call on enough closes that emitted a value strictly inside the range
C13_Witness ==
    /\ Len(rsi_call.closes) >= RsiPeriod + 1
    /\ \E i \in Emitted :
           /\ RLt(RInt(0), rsi_call.rsi[i][1])
           /\ RLt(rsi_call.rsi[i][1], RInt(100))

\* C14: after candle arrivals and RSI update cycles (a full computation, then
\* incremental updates), every stored value equals the value one computation over
\* the whole stored candle sequence of the symbol gives at that timestamp.
C14_StoredEqualsFullComputation ==
    \A r \in rsi_values : r \in Computed(candles)

StrictlyIncreasing(closes) == \A i \in 2..Len(closes) : closes[i] > closes[i - 1]

\* C15: for a strictly increasing close sequence longer than the period the value
\* is exactly 100 at position period and at every later position.
C15_AllGainsGive100 ==
    (Len(rsi_call.closes) > RsiPeriod /\ StrictlyIncreasing(rsi_call.closes)) =>
        \A i \in (RsiPeriod + 1)..Len(rsi_call.closes) : rsi_call.rsi[i] = <<RInt(100)>>

\* a strictly increasing sequence reaching past position period
C15_Witness ==
    /\ Len(rsi_call.closes) >= RsiPeriod + 2
    /\ StrictlyIncreasing(rsi_call.closes)
    /\ rsi_call.rsi[RsiPeriod + 2] = <<RInt(100)>>

GainAt(closes, i) ==
    IF closes[i] > closes[i - 1] THEN closes[i] - closes[i - 1] ELSE 0

LossAt(closes, i) ==
    IF closes[i] < closes[i - 1] THEN closes[i - 1] - closes[i] ELSE 0

\* Wilder's averages at index i > RsiPeriod: the mean of deltas 1..period at
\* index RsiPeriod + 1, smoothed from the previous index after it
RECURSIVE WilderAvgGain(_, _)
WilderAvgGain(closes, i) ==
    IF i = RsiPeriod + 1
    THEN RDivInt(RSum([k \in 1..RsiPeriod |-> RInt(GainAt(closes, k + 1))]), RsiPeriod)
    ELSE RDivInt(RAdd(RMul(WilderAvgGain(closes, i - 1), RInt(RsiPeriod - 1)),
                      RInt(GainAt(closes, i))), RsiPeriod)

RECURSIVE WilderAvgLoss(_, _)
WilderAvgLoss(closes, i) ==
    IF i = RsiPeriod + 1
    THEN RDivInt(RSum([k \in 1..RsiPeriod |-> RInt(LossAt(closes, k + 1))]), RsiPeriod)
    ELSE RDivInt(RAdd(RMul(WilderAvgLoss(closes, i - 1), RInt(RsiPeriod - 1)),
                      RInt(LossAt(closes, i))), RsiPeriod)

\* C17: for every close sequence of length >= period + 1 the value at position
\* period comes from the simple mean of the first period gains and losses (deltas
\* 1..period), each later value from avg = (previous avg * (period - 1) + current)
\* / period, and the value is 100 - 100 / (1 + avg_gain / avg_loss).
C17_WilderSmoothing ==
    \A i \in (RsiPeriod + 1)..Len(rsi_call.closes) :
        LET avg_gain == WilderAvgGain(rsi_call.closes, i)
            avg_loss == WilderAvgLoss(rsi_call.closes, i)
        IN avg_loss # RInt(0) =>
               rsi_call.rsi[i] =
                   <<RSub(RInt(100),
                          RDiv(RInt(100), RAdd(RInt(1), RDiv(avg_gain, avg_loss))))>>

\* a call whose seed and whose smoothed step both have a gain and a loss behind them
C17_Witness ==
    /\ Len(rsi_call.closes) >= RsiPeriod + 2
    /\ GainAt(rsi_call.closes, RsiPeriod + 1) > 0
    /\ WilderAvgLoss(rsi_call.closes, RsiPeriod + 1) # RInt(0)
    /\ WilderAvgGain(rsi_call.closes, RsiPeriod + 2) # RInt(0)
    /\ WilderAvgLoss(rsi_call.closes, RsiPeriod + 2) # RInt(0)
    /\ rsi_call.rsi[RsiPeriod + 2] # <<>>

\* closes of the candles stored after the last stored RSI value
NewCloses(since) == ClosesOf(SelectSeq(candles, LAMBDA c : c.ts > since))

\* C18: the incremental update reads only the new closes (with the stored pair of
\* averages), never the earlier price history.
C18_IncrementalReadsOnlyNewCloses ==
    (rsi_call.mode = "incremental" /\ phase = "idle") =>
        rsi_call.closes = NewCloses(rsi_call.since)

-----------------------------------------------------------------------------
(* Properties of the anomaly signals *)

\* the trades of the bar that act on its signal
SignalBuys == SelectSeq(TickTrades, LAMBDA t : t.type = "BUY")

OverboughtSells ==
    SelectSeq(TickTrades, LAMBDA t : t.type = "SELL" /\ t.reason = "OVERBOUGHT")

\* what check_signals returns for indicator values that raise no tag
NoTagSignals ==
    {check_signals(v[1], v[2], v[3], v[4]) :
        v \in {w \in ZScores \X PriceChanges \X GapPcts \X Rsis :
                  anomalies_of(w[1], w[2], w[3], w[4]) = <<>>}}

\* C19: a signal with anomaly tags whose summed severity is below min_severity is
\* never acted on (no BUY, no SELL) and is reported as not actionable with a
\* rejection reason that tells it from a signal with no tags at all.
C19_BelowMinSeverityRejected ==
    last_signal # <<>> =>
        CASE engine = "current" ->
                LET s == last_signal[1] IN
                (s.anomalies # <<>> /\ s.severity < CmpMinSeverity) =>
                    /\ s.signal.action = "HOLD"
                    /\ SignalBuys = <<>>
                    /\ OverboughtSells = <<>>
                    /\ s.signal \notin NoTagSignals
          [] engine = "improved" ->
                LET info == last_signal[1] IN
                (info.is_anomaly /\ info.severity < MinSeverity) =>
                    /\ SignalBuys = <<>>
                    /\ OverboughtSells = <<>>
          [] OTHER -> TRUE

\* C20: a signal with a buy-side and a sell-side tag is MIXED and, when
\* actionable, is acted on as a BUY entry and not as a sell; only buy-side tags
\* give BUY, only sell-side tags give SELL, no tags give no action.
C20_MixedActsAsBuy ==
    last_signal # <<>> =>
        CASE engine = "current" ->
                LET s == last_signal[1]
                    type == signal_type_of(s.anomalies)
                    actionable == s.severity >= CmpMinSeverity
                IN /\ (type = "MIXED" /\ actionable) =>
                          /\ s.signal.action = "BUY"
                          /\ OverboughtSells = <<>>
                          /\ tick_start = <<>> => Len(SignalBuys) = 1
                   /\ (type = "BUY" /\ actionable) =>
                          /\ s.signal.action = "BUY"
                          /\ OverboughtSells = <<>>
                   /\ (type = "SELL" /\ actionable) =>
                          /\ s.signal.action = "SELL"
                          /\ SignalBuys = <<>>
                   /\ type = "NONE" =>
                          /\ s.signal.action = "HOLD"
                          /\ SignalBuys = <<>>
                          /\ OverboughtSells = <<>>
          [] engine = "improved" ->
                LET info == last_signal[1]
                    actionable == info.is_anomaly /\ info.severity >= MinSeverity
                IN /\ (info.signal_type = "MIXED" /\ actionable) =>
                          /\ Len(SignalBuys) = 1
                          /\ OverboughtSells = <<>>
                   /\ (info.signal_type = "BUY" /\ actionable) =>
                          /\ Len(SignalBuys) = 1
                          /\ OverboughtSells = <<>>
                   /\ (info.signal_type = "SELL" /\ actionable) => SignalBuys = <<>>
                   /\ ~info.is_anomaly =>
                          /\ SignalBuys = <<>>
                          /\ OverboughtSells = <<>>
          [] OTHER -> TRUE

-----------------------------------------------------------------------------
(* Properties of the position size *)

\* the multiplier the win rate wins / (wins + losses) earns, by its four bands
SizeMultiplier(won, lost) ==
    LET win_rate == Rat(won, won + lost) IN
    IF RLe(Rat(6, 10), win_rate) THEN Rat(12, 10)
    ELSE IF RLe(Rat(5, 10), win_rate) THEN Rat(10, 10)
    ELSE IF RLe(Rat(4, 10), win_rate) THEN Rat(8, 10)
    ELSE Rat(6, 10)

\* C21: for every win/loss count the position size is the base size times 1.2
\* when the win rate is >= 0.6, times 1.0 when >= 0.5, times 0.8 when >= 0.4,
\* else times 0.6; with no sale recorded it is exactly the base size.
C21_SizeByWinRate ==
    fn_call.fn = "get_position_size" =>
        fn_call.size =
            IF fn_call.wins + fn_call.losses = 0 THEN RInt(BasePositionSize)
            ELSE RMul(RInt(BasePositionSize), SizeMultiplier(fn_call.wins, fn_call.losses))

\* a win rate of exactly 0.4, sized at 0.8 of the base
C21_Witness ==
    /\ fn_call.fn = "get_position_size"
    /\ fn_call.wins = 2 /\ fn_call.losses = 3
    /\ fn_call.size = RMul(RInt(BasePositionSize), Rat(8, 10))

\* sales recorded in the win/loss counter of the symbol
Recorded == stock_performance.wins + stock_performance.losses

\* the sales of the bar that closed their position: it is no longer held
FullCloses ==
    {i \in 1..Len(TickTrades) :
        /\ TickTrades[i].type = "SELL"
        /\ \A k \in 1..Len(positions) : positions[k].id # TickTrades[i].pos}

\* C22: the win/loss counter that drives position sizing changes exactly once
\* each time a position fully closes and at no other time: not on a partial
\* sale, not on a bar without a close.
C22_CounterOnlyOnFullClose ==
    [][(engine = "improved" /\ day' = day + 1) =>
           Recorded' - Recorded = Cardinality(FullCloses')]_vars

-----------------------------------------------------------------------------
(* Properties of the execution price *)

\* C23: for every daily bar with Low <= Close <= High the price returned by
\* get_execution_price lies within [Low, High], on every path: intraday
\* lookup, fallback, conversion failure.
C23_ExecutionPriceInRange ==
    fn_call.fn = "get_execution_price" =>
        /\ RLe(RInt(fn_call.daily_data.Low), fn_call.price)
        /\ RLe(fn_call.price, RInt(fn_call.daily_data.High))

\* the fallback on a bar that closed at its low: the slippage is clamped away
C23_Witness ==
    /\ fn_call.fn = "get_execution_price"
    /\ fn_call.path = "fallback"
    /\ fn_call.daily_data.Close = fn_call.daily_data.Low
    /\ fn_call.daily_data.Close = fn_call.daily_data.High
    /\ fn_call.price = RInt(fn_call.daily_data.Low)

-----------------------------------------------------------------------------
(* Properties of the portfolio limit *)

\* C24: an entry is requested only when the instrument has no open position and
\* the number of open positions is below the limit, so the number of positions
\* open at the same time never exceeds max_positions.
C24_EntriesWithinLimit ==
    /\ Cardinality(mr_keys) <= MaxPositions
    /\ (fn_call.fn = "check_signals" /\ fn_call.action = "BUY") =>
           /\ ~fn_call.held
           /\ fn_call.open_positions < MaxPositions

\* the limit is reached and an entry that met its conditions was refused
C24_Witness ==
    /\ Cardinality(mr_keys) = MaxPositions
    /\ fn_call.fn = "check_signals"
    /\ fn_call.entry_ok /\ ~fn_call.held
    /\ fn_call.open_positions = MaxPositions
    /\ fn_call.action = "HOLD"

-----------------------------------------------------------------------------
(* Properties of the monitoring cycle *)

\* C25: within one monitoring cycle a failure (data, database or broker error)
\* while processing one alert does not keep the remaining alerts of that cycle
\* from being processed: each step of a loop over alerts leaves the alerts after
\* the one it visited to be visited.
C25_FailureSparesTheRest ==
    [][(engine = "live" /\ todo # <<>>) => todo' = Tail(todo)]_vars

C27_StopEndsLoop ==
    /\ [][(engine = "loop" /\ stop_at # <<>> /\ phase = "idle")
            => (phase' \in {"idle", "stopped"} /\ cycles' = cycles)]_vars
    /\ [][(engine = "loop" /\ stop_at # <<>> /\ phase \in {"buys", "exits"})
            => (phase' \in {"buys", "exits"} /\ cycles' = cycles) \/ cycles' = cycles + 1]_vars
    /\ (engine = "loop" /\ stop_at # <<>>) ~> (phase = "stopped")

\* run_loop has returned after a stop() called in the middle of a cycle
C27_Witness ==
    /\ engine = "loop" /\ phase = "stopped" /\ stop_at # <<>>
    /\ stop_at[1] = "buys" /\ cycles >= 1
    /\ last.op # "KeyboardInterrupt"

\* timestamps of the rows of a table
Stamps(rows) == {rows[i].ts : i \in 1..Len(rows)}

\* C28: a fetched bar whose timestamp is not strictly greater than the latest
\* stored bar of the instrument is not stored, so the stored bars of an
\* instrument have pairwise distinct timestamps and every oscillator value
\* belongs to one stored bar, with one value per timestamp.
C28_OnlyNewerBarsStored ==
    /\ [][(engine = "candles" /\ candles # <<>>)
            => \A t \in Stamps(candles') \ Stamps(candles) : t > candles[Len(candles)].ts]_vars
    /\ [](engine = "candles" => \A i, j \in 1..Len(candles) : i < j => candles[i].ts < candles[j].ts)
    /\ [](engine = "candles" =>
            /\ \A r \in rsi_values : r.ts \in Stamps(candles)
            /\ \A r, q \in rsi_values : r.ts = q.ts => r = q)

\* an answer held a bar at the latest stored timestamp and a newer one: only the
\* newer one was stored, and the oscillator has values
C28_Witness ==
    /\ engine = "candles" /\ fn_call.fn = "update_candles_for_symbol"
    /\ Len(fn_call.new_candles) = 2
    /\ fn_call.new_candles[1].ts = fn_call.since
    /\ fn_call.new_candles[2].ts > fn_call.since
    /\ fn_call.stored_count = 1
    /\ rsi_values # {}

\* C29: detect_cross_under returns an event exactly when at least two oscillator
\* values exist for the symbol, the previous one is >= threshold, the current
\* one is < threshold and a candle exists at the current timestamp; it returns
\* None when the value stays at or above the threshold and when it was already
\* below it.
C29_CrossUnderExactly ==
    (engine = "alerts" /\ fn_call.fn = "detect_cross_under") =>
        LET values == fn_call.rsi_14
            threshold == RInt(RsiThreshold)
        IN /\ fn_call.event # <<>> <=>
                  /\ Len(values) = 2
                  /\ RLe(threshold, values[2]) /\ RLt(values[1], threshold)
                  /\ fn_call.has_candle
           /\ (Len(values) = 2 /\ RLe(threshold, values[1])) => fn_call.event = <<>>
           /\ (Len(values) = 2 /\ RLt(values[2], threshold)) => fn_call.event = <<>>
           /\ fn_call.event # <<>> => fn_call.event[1].rsi_value = values[1]

\* a call that returned an event: the value went from 28 down to 24
C29_Witness ==
    /\ engine = "alerts" /\ fn_call.fn = "detect_cross_under"
    /\ fn_call.event # <<>>
    /\ fn_call.rsi_14 = <<RInt(24), RInt(28)>>

\* the highest price of position p with the price of the bar taken in
UpdatedHighest(p) ==
    IF execution_price > p.highest_price THEN execution_price ELSE p.highest_price

\* the trailing stop of position p recomputed from UpdatedHighest(p)
UpdatedTrailingStop(p) ==
    CASE engine = "improved" ->
            IF execution_price > p.highest_price
            THEN RMul(RInt(UpdatedHighest(p)), Pct(100 - p.trailing_stop_pct))
            ELSE p.trailing_stop_price
      [] engine = "current" ->
            IF execution_price > p.highest_price
            THEN RMul(RInt(UpdatedHighest(p)), Pct(100 - TrailingStopPct))
            ELSE p.trailing_stop
      [] engine = "meanrev" -> mr_trailing_stop(UpdatedHighest(p), p.atr_at_entry)

TrailingSells(p) == SelectSeq(SellsOf(p), LAMBDA t : t.reason = "TRAILING_STOP")

\* C30: on every bar the trailing-stop test of a held position uses the highest
\* price already updated with the price of the bar: the position is sold with
\* reason TRAILING_STOP exactly when no stop-loss applies and the price is at or
\* below the trailing stop recomputed from max(highest, price), and a position
\* that stays open carries that maximum.
C30_TrailingTestAfterUpdate ==
    \A p \in Held :
        /\ TrailingSells(p) # <<>> <=>
               /\ ~StopLossHolds(p)
               /\ RLe(RInt(execution_price), UpdatedTrailingStop(p))
        /\ \A i \in 1..Len(After(p)) : After(p)[i].highest_price = UpdatedHighest(p)

\* a mean-reversion bar sold a position at the trailing stop of a high that an
\* earlier bar had set
C30_Witness ==
    /\ engine = "meanrev"
    /\ \E p \in Held :
        /\ TrailingSells(p) # <<>>
        /\ p.highest_price > p.entry_price
        /\ execution_price < p.highest_price

-----------------------------------------------------------------------------
(* Properties of the replay of alerts *)

\* C31: every simulated trade whose exit reason is take_profit exits at the
\* take-profit price entry_price * (1 + take_profit_pct / 100), so its return
\* equals take_profit_pct.
C31_TakeProfitAtTarget ==
    (engine = "parity" /\ phase = "idle") =>
        LET t == simulate_trade(alerts[1]) IN
        (t # <<>> /\ t[1].exit_reason = "take_profit") =>
            /\ t[1].exit_price = take_profit_price(t[1].entry_price, TakeProfitPct)
            /\ t[1].pnl = RInt(TakeProfitPct)

\* the entry candle of the alert, and what find_exit_candle returns for it
EntryCandle == candles[find_entry_candle(alerts[1].ts)]

ExitFound ==
    find_exit_candle(EntryCandle.ts, EntryCandle.close, TakeProfitPct, MaxHoldingDays)

\* candle i reaches the take-profit price, resp. the end of the holding time
ReachesTarget(i) ==
    RLe(take_profit_price(EntryCandle.close, TakeProfitPct), RInt(candles[i].high))

ReachesHolding(i) == candles[i].ts >= EntryCandle.ts + MaxHoldingDays * MinutesPerDay

\* C32: find_exit_candle returns the earliest candle after entry, in timestamp
\* order, whose high reaches the take-profit price or whose timestamp reaches
\* entry_time + max_holding_days; when both hold on that candle the reason is
\* take_profit; when no candle qualifies it returns the last candle with reason
\* end_of_data.
C32_EarliestExitCandle ==
    (engine = "parity" /\ find_entry_candle(alerts[1].ts) # 0) =>
        LET after == {i \in 1..Len(candles) : candles[i].ts > EntryCandle.ts}
            hits == {i \in after : ReachesTarget(i) \/ ReachesHolding(i)}
            x == ExitFound
        IN /\ hits # {} =>
                /\ x.candle \in hits
                /\ \A i \in hits : candles[x.candle].ts <= candles[i].ts
                /\ x.reason = IF ReachesTarget(x.candle) THEN "take_profit" ELSE "max_holding"
           /\ (hits = {} /\ after # {}) =>
                /\ x.candle = Len(candles)
                /\ x.reason = "end_of_data"

\* the first candle after entry qualifies by neither test, the second by both
C32_Witness ==
    /\ engine = "parity" /\ Len(candles) = 3
    /\ find_entry_candle(alerts[1].ts) = 1
    /\ ~ReachesTarget(2) /\ ~ReachesHolding(2)
    /\ ReachesTarget(3) /\ ReachesHolding(3)
    /\ ExitFound = [candle |-> 3, reason |-> "take_profit"]

-----------------------------------------------------------------------------
(* Properties of the executor of trades, continued *)

\* the order a step has submitted, <<>> when it has submitted none
Submitted == IF Len(orders') > Len(orders) THEN <<orders'[Len(orders')]>> ELSE <<>>

\* C33: no buy order is submitted for an alert before at least 5 minutes have
\* passed since the alert's timestamp.
C33_NoBuyBeforeDelay ==
    [][(engine = "live" /\ Submitted # <<>> /\ Submitted[1].side = "BUY") =>
           now - alerts[Submitted[1].alert].ts >= 5]_vars

\* a buy order submitted in the first cycle that finds its alert 5 minutes old
C33_Witness ==
    /\ engine = "live" /\ phase = "buys"
    /\ last.op = "buy" /\ last.ok
    /\ orders # <<>> /\ orders[Len(orders)].side = "BUY"
    /\ orders[Len(orders)].alert = last.alert
    /\ now - alerts[last.alert].ts = 5

\* C34: when trading is disabled or the broker client failed to initialise, no
\* buy or sell order is ever submitted in any cycle, and no alert changes status.
C34_DisabledNeverTrades ==
    [][(engine = "live" /\ (~enabled \/ ~client)) =>
           /\ orders' = orders
           /\ \A i \in 1..Len(alerts) : alerts'[i].status = alerts[i].status]_vars

\* an enabled executor without client has gone twice through a cycle that found
\* a pending alert old enough to be bought
C34_Witness ==
    /\ engine = "live" /\ enabled /\ ~client
    /\ cycles >= 2 /\ phase = "idle"
    /\ \E i \in 1..Len(alerts) :
        /\ alerts[i].status = "pending"
        /\ now - alerts[i].ts >= 2 * EntryDelayMinutes
    /\ orders = <<>>

-----------------------------------------------------------------------------
(* Properties of the monitor cycles *)

\* C35: over any sequence of monitor cycles one alert row is stored and one
\* notification is sent per cross-under event (symbol, timestamp): a cycle in
\* which no new oscillator value arrived does not store or notify the same event
\* again.
C35_OncePerEvent ==
    engine = "monitor" =>
        /\ \A i, j \in 1..Len(alerts) :
            (alerts[i].symbol = alerts[j].symbol /\ alerts[i].ts = alerts[j].ts) => i = j
        /\ \A i, j \in 1..Len(notifications) :
            notifications[i] = notifications[j] => i = j

-----------------------------------------------------------------------------
(* Properties of the result of the backtest *)

\* what the shares still held at the end are worth at the final price
HeldValue ==
    RSum([i \in 1..Len(positions) |->
             RMul(positions[i].shares, RInt(execution_price))])

\* C36: in the per-symbol backtest result every share bought is valued exactly
\* once: total_value equals the proceeds of all sells plus the value at the final
\* price of the shares still held, so profit_loss equals the sum over all buys of
\* (exit or final price - entry price) * shares.
C36_EveryShareValuedOnce ==
    (engine = "improved" /\ result # <<>> /\ RLt(RInt(0), total_invested)) =>
        LET sells == SelectSeq(trades, LAMBDA t : t.type = "SELL")
            expected == RAdd(Proceeds(sells), HeldValue)
        IN /\ result[1].total_value = expected
           /\ result[1].profit_loss = RSub(expected, total_invested)

-----------------------------------------------------------------------------
(* Properties of the forced exit *)

\* the alert is 'triggered' and the broker holds the position of its symbol
TriggeredAndHeld(id) ==
    /\ alerts[id].status = "triggered"
    /\ broker[alerts[id].symbol].qty > 0

\* C37: under fair execution of monitor cycles with a broker that accepts sell
\* orders, every alert in status 'triggered' whose position is held eventually
\* becomes 'expired': at the latest once max_holding_days have elapsed a sell is
\* submitted regardless of price.
C37_HeldEventuallyExpired ==
    (engine = "held" /\ TriggeredAndHeld(1)) ~> (alerts[1].status = "expired")

\* the half of C37 about the order: the position is eventually sold
C37_HeldEventuallySold ==
    (engine = "held" /\ TriggeredAndHeld(1)) ~> (broker[alerts[1].symbol].qty = 0)

-----------------------------------------------------------------------------
(* Properties of the status of an alert *)

StatusRank(status) ==
    CASE status = "pending" -> 1
      [] status = "triggered" -> 2
      [] status = "expired" -> 3

\* C38: an alert's status only moves forward pending -> triggered -> expired: it
\* becomes 'triggered' only in the step that submitted its buy order, becomes
\* 'expired' only in the step that submitted a successful sell for its symbol,
\* and never returns to an earlier status.
C38_StatusMovesForward ==
    [][engine = "live" =>
          /\ Len(alerts') >= Len(alerts)
          /\ \A id \in (Len(alerts) + 1)..Len(alerts') : alerts'[id].status = "pending"
          /\ \A id \in 1..Len(alerts) :
              /\ StatusRank(alerts'[id].status) >= StatusRank(alerts[id].status)
              /\ (alerts'[id].status = "triggered" /\ alerts[id].status # "triggered") =>
                    /\ alerts[id].status = "pending"
                    /\ Submitted = <<[side |-> "BUY", symbol |-> alerts[id].symbol,
                                      alert |-> id]>>
              /\ (alerts'[id].status = "expired" /\ alerts[id].status # "expired") =>
                    /\ alerts[id].status = "triggered"
                    /\ Submitted # <<>>
                    /\ Submitted[1].side = "SELL"
                    /\ Submitted[1].symbol = alerts[id].symbol]_vars

\* an alert that has gone from 'pending' over 'triggered' to 'expired', while a
\* later alert of the symbol is still 'pending'
C38_Witness ==
    /\ engine = "live" /\ Len(alerts) = 2
    /\ alerts[1].status = "expired" /\ alerts[2].status = "pending"
    /\ Len(orders) = 2
    /\ orders[1] = [side |-> "BUY", symbol |-> alerts[1].symbol, alert |-> 1]
    /\ orders[2].side = "SELL"

====
